---- MODULE Spec2Model ----
(***************************************************************************)
(* LECS (Lightweight Entity Component System), src/lecs/lecs.hpp and       *)
(* src/lecs/lecs.inl: the entity table with generational handles, the      *)
(* per-type dense component stores with swap-remove, and the registry      *)
(* (lecs::ECS) that ties them together through the component masks.        *)
(*                                                                         *)
(* Encoding of the fixed-width integers.  EntityIndex and EntityGeneration *)
(* are uint32_t.  A 32-bit pattern is held as the two's-complement integer *)
(* with the same bits, so 0xFFFFFFFF is -1, exactly as the source writes   *)
(* INVALID_INDEX = -1, and old_gen + 1 wraps from 0xFFFFFFFF (-1) to 0.    *)
(* The 64-bit Entity id (generation << 32 | index) is held as the pair of  *)
(* its two 32-bit halves.                                                  *)
(***************************************************************************)
EXTENDS Integers, Sequences, FiniteSets, TLC

\* --------------------------------------------------------- configuration
\* LECS_MAX_ENTITIES and LECS_MAX_COMPONENTS are configuration macros
\* (lecs.hpp:66-72, set by test.cpp:5); the registry checked here is built
\* with 3 entities and 2 component types.
MAX_ENTITIES == 3
MAX_COMPONENTS == 2

\* the component types of the client program (test.cpp:9-40)
Types == {"TransformComponent", "VelocityComponent"}

\* ---------------------------------------------------------------- bounds
\* successful remove_entity calls in one run of Spec
MaxRemoves == 1
\* successful add_component_to_entity calls in one run of Spec
MaxAdds == 2
\* successful remove_entity calls in one run of SpecEntities
MaxEntityRemoves == 3
\* successful remove_entity calls in one run of SpecQueries
MaxQueryRemoves == 1
\* successful add_component_to_entity calls in one run of SpecQueries
MaxQueryAdds == 1

\* the removals and attachments between the loops of SpecIterator
MaxIterRemoves == 1

MaxIterAdds == 3

\* the indices SpecIds allocates
MaxIdsEntities == 1

\* the removals and attachments of SpecLoop, inside and outside the loop
MaxLoopRemoves == 1

MaxLoopAdds == 1

\* ------------------------------------------------------------- constants
\* Entity::INVALID_INDEX = -1 (0xFFFFFFFF as EntityIndex)
INVALID_INDEX == -1
\* ComponentIndex::INVALID_INDEX = -1 (as ComponentArraySizeType)
COMPONENT_INVALID_INDEX == -1
\* the largest EntityGeneration, 0xFFFFFFFF
GENERATION_LAST == -1
\* the largest pattern with the top bit clear, 0x7FFFFFFF
INT32_TOP == 2147483647
\* an array element no statement has written yet (default-initialised
\* std::array of a scalar type): it is never read before it is written
UNWRITTEN == -2
\* the payload of a value-initialised component, T{}
DEFAULT_VALUE == 0
\* the payload the client stores through the pointer (test.cpp:134)
WRITTEN_VALUE == 1

Indices == 0 .. (MAX_ENTITIES - 1)
ComponentIds == 0 .. (MAX_COMPONENTS - 1)

\* ---------------------------------------------------------------- Entity
\* Entity::Entity(index, generation): id = generation << 32 | index
Entity(index, generation) == [index |-> index, generation |-> generation]

get_index(e) == e.index

get_generation(e) == e.generation

\* const Entity Entity::Invalid = { INVALID_INDEX, 0 }
Invalid == Entity(INVALID_INDEX, 0)

is_valid(e) == get_index(e) # INVALID_INDEX

\* EntityGeneration + 1 stopping at 0xFFFFFFFF
GenerationPlusOne_saturating(g) ==
    IF g = GENERATION_LAST THEN g
    ELSE IF g = INT32_TOP THEN (-INT32_TOP) - 1 ELSE g + 1

\* EntityGeneration + 1 in uint32_t arithmetic
GenerationPlusOne(g) == IF g = INT32_TOP THEN (-INT32_TOP) - 1 ELSE g + 1

EmptyMask == {}

\* EntityArray::Entry
Entry(id, mask) == [id |-> id, mask |-> mask]

\* ------------------------------------------------------ ComponentArray<T>
\* ComponentArray(): m_component_array() is value-initialised (zero bytes),
\* every ComponentIndex is INVALID_INDEX, m_index_to_entity_map is left
\* default-initialised, m_size(0).  present = FALSE is the null unique_ptr.
NewComponentArray ==
    [present |-> TRUE,
     m_component_array |-> [d \in Indices |-> DEFAULT_VALUE],
     m_entity_to_index_map |-> [e \in Indices |-> COMPONENT_INVALID_INDEX],
     m_index_to_entity_map |-> [d \in Indices |-> UNWRITTEN],
     m_size |-> 0]

\* a default-constructed std::unique_ptr<IComponentArray>
NullComponentArray ==
    [present |-> FALSE,
     m_component_array |-> [d \in Indices |-> DEFAULT_VALUE],
     m_entity_to_index_map |-> [e \in Indices |-> COMPONENT_INVALID_INDEX],
     m_index_to_entity_map |-> [d \in Indices |-> UNWRITTEN],
     m_size |-> 0]

get_data_from_component_index(s, component_index) ==
    s.m_component_array[component_index]

\* placement new T: default-initialisation, the bytes stay as they are
construct_at_index_uninitialised(s, component_index) == s

\* placement new T{}: value-initialisation
construct_at_index(s, component_index) ==
    [s EXCEPT !.m_component_array[component_index] = DEFAULT_VALUE]

\* the slot keeps its bytes: nothing is constructed from other
construct_at_index_move_dropped(s, component_index, other) == s

\* placement new T(std::move(other))
construct_at_index_move(s, component_index, other) ==
    [s EXCEPT !.m_component_array[component_index] = other]

\* ~T(): the bytes of the slot stay as they are
destroy_at_index(s, component_index) ==
    [s EXCEPT !.m_component_array[component_index] =
                  get_data_from_component_index(s, component_index)]

\* assign_new_index handing out dense index 0 every time
assign_new_index_first_slot(s, entity_index) ==
    [s EXCEPT !.m_entity_to_index_map[entity_index] = 0,
              !.m_index_to_entity_map[0] = entity_index,
              !.m_size = @ + 1]

assign_new_index(s, entity_index) ==
    LET new_index == s.m_size
    IN  [s EXCEPT !.m_entity_to_index_map[entity_index] = new_index,
                  !.m_index_to_entity_map[new_index] = entity_index,
                  !.m_size = @ + 1]

insert_data_default_initialized(s, entity_index) ==
    LET new_index == s.m_size
    IN  construct_at_index(assign_new_index(s, entity_index), new_index)

\* remove_data without --m_size
remove_data_keep_size(s, entity_index) ==
    LET index_of_removed_entity == s.m_entity_to_index_map[entity_index]
        index_of_last_element == s.m_size - 1
        entity_index_of_last_element == s.m_index_to_entity_map[index_of_last_element]
        moved == get_data_from_component_index(s, index_of_last_element)
    IN  [s EXCEPT !.m_component_array[index_of_removed_entity] = moved,
                  !.m_entity_to_index_map =
                      [[@ EXCEPT ![entity_index_of_last_element] = index_of_removed_entity]
                          EXCEPT ![entity_index] = COMPONENT_INVALID_INDEX],
                  !.m_index_to_entity_map =
                      [[@ EXCEPT ![index_of_removed_entity] = entity_index_of_last_element]
                          EXCEPT ![index_of_last_element] = INVALID_INDEX]]

\* remove_data leaving the forward entry of the moved entity as it was
remove_data_stale_forward(s, entity_index) ==
    LET index_of_removed_entity == s.m_entity_to_index_map[entity_index]
        index_of_last_element == s.m_size - 1
        moved == get_data_from_component_index(s, index_of_last_element)
        entity_index_of_last_element == s.m_index_to_entity_map[index_of_last_element]
    IN  [s EXCEPT !.m_component_array[index_of_removed_entity] = moved,
                  !.m_entity_to_index_map[entity_index] = COMPONENT_INVALID_INDEX,
                  !.m_index_to_entity_map =
                      [[@ EXCEPT ![index_of_removed_entity] = entity_index_of_last_element]
                          EXCEPT ![index_of_last_element] = INVALID_INDEX],
                  !.m_size = @ - 1]

\* remove_data leaving the reverse entry of the vacated slot as it was
remove_data_stale_reverse(s, entity_index) ==
    LET index_of_removed_entity == s.m_entity_to_index_map[entity_index]
        index_of_last_element == s.m_size - 1
        moved == get_data_from_component_index(s, index_of_last_element)
        entity_index_of_last_element == s.m_index_to_entity_map[index_of_last_element]
    IN  [s EXCEPT !.m_component_array[index_of_removed_entity] = moved,
                  !.m_entity_to_index_map =
                      [[@ EXCEPT ![entity_index_of_last_element] = index_of_removed_entity]
                          EXCEPT ![entity_index] = COMPONENT_INVALID_INDEX],
                  !.m_index_to_entity_map[index_of_last_element] = INVALID_INDEX,
                  !.m_size = @ - 1]

\* remove_data filling dense slot 0, whichever slot the entity is in
remove_data_into_first_slot(s, entity_index) ==
    LET index_of_removed_entity == 0
        index_of_last_element == s.m_size - 1
        moved == get_data_from_component_index(s, index_of_last_element)
        entity_index_of_last_element == s.m_index_to_entity_map[index_of_last_element]
    IN  [s EXCEPT !.m_component_array[index_of_removed_entity] = moved,
                  !.m_entity_to_index_map =
                      [[@ EXCEPT ![entity_index_of_last_element] = index_of_removed_entity]
                          EXCEPT ![entity_index] = COMPONENT_INVALID_INDEX],
                  !.m_index_to_entity_map =
                      [[@ EXCEPT ![index_of_removed_entity] = entity_index_of_last_element]
                          EXCEPT ![index_of_last_element] = INVALID_INDEX],
                  !.m_size = @ - 1]

remove_data(s, entity_index) ==
    LET index_of_removed_entity == s.m_entity_to_index_map[entity_index]
        index_of_last_element == s.m_size - 1
        s1 == destroy_at_index(s, index_of_removed_entity)
        s2 == construct_at_index_move(s1, index_of_removed_entity,
                  get_data_from_component_index(s1, index_of_last_element))
        s3 == destroy_at_index(s2, index_of_last_element)
        entity_index_of_last_element ==
            s3.m_index_to_entity_map[index_of_last_element]
        s4 == [s3 EXCEPT !.m_entity_to_index_map[entity_index_of_last_element] =
                             index_of_removed_entity]
        s5 == [s4 EXCEPT !.m_index_to_entity_map[index_of_removed_entity] =
                             entity_index_of_last_element]
        s6 == [s5 EXCEPT !.m_entity_to_index_map[entity_index] =
                             COMPONENT_INVALID_INDEX]
        s7 == [s6 EXCEPT !.m_index_to_entity_map[index_of_last_element] =
                             INVALID_INDEX]
    IN  [s7 EXCEPT !.m_size = @ - 1]

has_data(s, entity_index) ==
    s.m_entity_to_index_map[entity_index] # COMPONENT_INVALID_INDEX

get_data_from_entity_index(s, entity_index) ==
    get_data_from_component_index(s, s.m_entity_to_index_map[entity_index])

\* on_entity_removed doing nothing
on_entity_removed_noop(s, entity_index) == s

\* on_entity_removed giving the store up with its last component
on_entity_removed_dropping_store(s, entity_index) ==
    IF has_data(s, entity_index)
    THEN IF s.m_size = 1 THEN NullComponentArray ELSE remove_data(s, entity_index)
    ELSE s

on_entity_removed(s, entity_index) ==
    IF has_data(s, entity_index) THEN remove_data(s, entity_index) ELSE s


\* ----------------------------------------------------------------- state
VARIABLES
    m_entities,            \* EntityArray::m_entities
    m_entities_count,      \* EntityArray::m_entities_count
    m_free_indices,        \* EntityArray::m_free_indices
    m_free_indices_count,  \* EntityArray::m_free_indices_count
    m_components,          \* ECS::m_components, indexed by component id
    type_id,               \* ComponentID::get<T>()::id of the types referenced so far
    counter,               \* ComponentID::counter
    call,                  \* the last public call and what it returned
    removed,               \* handles that were live and removed by remove_entity
    wrapped,               \* removed handles whose index's generation has wrapped to 0 since
    removes,               \* successful remove_entity calls of this run
    adds,                  \* successful add_component_to_entity calls of this run
    reference,             \* the partial map (entity, type) -> value kept beside the registry
    iteration,             \* the last range-for over an EntityIterator and what it yielded
    inserted,              \* store-level runs: the entity indices of a store, in insertion order
    loop,                  \* the Iterator of a range-for in progress
    h_loop,                \* the Iterator of src/lecs.h in the same range-for
    lifetime,              \* store-level runs: which dense slots hold a constructed value
    freed,                 \* the indices remove_entity freed and no create_entity took since, oldest first
    snapshot,              \* the registry before the last call, when that call attached a component
    recycled               \* per index: successful remove_entity calls before this run and in it

entity_table == <<m_entities, m_entities_count, m_free_indices, m_free_indices_count>>
registry == <<m_entities, m_entities_count, m_free_indices, m_free_indices_count, m_components>>
component_ids == <<type_id, counter>>
history == <<removed, wrapped, removes, adds, recycled>>
observations == <<reference, iteration, inserted, loop, h_loop, lifetime>>
vars == <<m_entities, m_entities_count, m_free_indices, m_free_indices_count,
          m_components, type_id, counter, call, removed, wrapped, removes, adds,
          reference, iteration, inserted, loop, h_loop, lifetime, freed, snapshot, recycled>>

\* a T* into the dense array of T's store, or nullptr
NULLPTR == [null |-> TRUE, slot |-> 0]

Pointer(slot) == [null |-> FALSE, slot |-> slot]

\* The record of a call: its name, whether the handle passed was live and
\* whether it carried the component type passed when the call was made, the
\* bool the call returned (for void remove_entity: whether it removed), the
\* pointer it returned, and the handle it returned (create_entity).  A call
\* that changed the registry also records the entity and type it changed.
Call(op, live, carried, ok, ptr, entity, type) ==
    [op |-> op, live |-> live, carried |-> carried, ok |-> ok, ptr |-> ptr,
     entity |-> entity, type |-> type]

\* the handles a caller passes in: the default handle Entity::Invalid, the
\* handles create_entity has returned (live now, or removed since), and a
\* handle made up for the first index that was never created
LiveHandles == { m_entities[i].id : i \in { j \in Indices : m_entities[j].id.index = j } }

NeverCreated ==
    IF m_entities_count < MAX_ENTITIES THEN {Entity(m_entities_count, 0)} ELSE {}

Handles == {Invalid} \cup LiveHandles \cup removed \cup NeverCreated

\* ----------------------------------------------------------- ComponentID
\* the value ComponentID::get<T>() returns in the current state
ComponentID_get(T) == IF T \in DOMAIN type_id THEN type_id[T] ELSE counter

\* static IDType id = counter++ runs on the first call for T only
ComponentID_type_id_after(T) ==
    IF T \in DOMAIN type_id THEN type_id ELSE type_id @@ (T :> counter)

\* static IDType id = counter, without the increment
ComponentID_counter_after_stuck(T) == counter

ComponentID_counter_after(T) ==
    IF T \in DOMAIN type_id THEN counter ELSE counter + 1

\* ------------------------------------------------- what a caller observes
\* The notions the calls are recorded in and the claims are stated in, read
\* off the registry's data and not through the operations under test.

\* a handle is live iff the slot at its index stores that very id
IsLive(e) ==
    /\ get_index(e) \in Indices
    /\ m_entities[get_index(e)].id = e

\* the store with component id c holds a value for entity index i
StoreHolds(c, i) ==
    /\ m_components[c].present
    /\ m_components[c].m_entity_to_index_map[i] # COMPONENT_INVALID_INDEX

StoreSize(c) == IF m_components[c].present THEN m_components[c].m_size ELSE 0

\* entity e carries a component of type T
Carries(e, T) == IsLive(e) /\ StoreHolds(ComponentID_get(T), get_index(e))

\* --------------------------------------------------------- reference map
\* The component, as the caller sees it: zero or one value per live entity
\* and type.  The map is keyed by the handle, knows nothing of indices or
\* dense slots, and follows the calls by their contract.
EmptyReference == [p \in {} |-> DEFAULT_VALUE]

reference_without(keys) == [p \in (DOMAIN reference) \ keys |-> reference[p]]

reference_add(e, T) ==
    IF IsLive(e) /\ <<e, T>> \notin DOMAIN reference
    THEN (<<e, T>> :> DEFAULT_VALUE) @@ reference
    ELSE reference

reference_remove(e, T) ==
    IF IsLive(e) THEN reference_without({<<e, T>>}) ELSE reference

reference_remove_entity(e) ==
    IF IsLive(e) THEN reference_without({<<e, T>> : T \in Types}) ELSE reference

reference_write(e, T, value) ==
    IF <<e, T>> \in DOMAIN reference
    THEN (<<e, T>> :> value) @@ reference
    ELSE reference

\* no range-for has run yet
NoIteration == [required |-> <<>>, yielded |-> <<>>, ran |-> FALSE]

\* no range-for is in progress
NoLoop ==
    [active |-> FALSE, in_body |-> FALSE, m_entity_index |-> 0, m_entity_count |-> 0,
     m_mask |-> {}, m_all |-> FALSE, advances |-> 0]

\* the last call attached nothing
NoSnapshot ==
    [taken |-> FALSE, round_trip |-> FALSE, entity |-> Invalid, type |-> "",
     m_entities |-> <<>>, m_components |-> <<>>]

\* no range-for is in progress for the Iterator of src/lecs.h either
lecs_h_NoLoop ==
    [active |-> FALSE, diverged |-> FALSE, m_entity_index |-> 0, end_entity_index |-> 0]

\* no dense slot holds a constructed value, nothing went wrong so far
NoLifetime == [alive |-> {}, faults |-> {}]

\* ----------------------------------------------------------- EntityArray
get_component_mask(entity_index) == m_entities[entity_index].mask

get_id(entity_index) == m_entities[entity_index].id

\* get_count returning the number of live entities
get_count_live == m_entities_count - m_free_indices_count

get_count == m_entities_count

\* create_entity reusing an index with generation 0 instead of the stored one
create_entity_new_id_generation_reset ==
    IF m_free_indices_count > 0
    THEN Entity(m_free_indices[m_free_indices_count - 1], 0)
    ELSE Entity(m_entities_count, 0)

\* create_entity taking the oldest free index, not the latest
create_entity_new_id_oldest_free ==
    IF m_free_indices_count > 0
    THEN LET new_index == m_free_indices[0]
             new_generation == get_generation(m_entities[new_index].id)
         IN  Entity(new_index, new_generation)
    ELSE Entity(m_entities_count, 0)

\* the handle create_entity builds (lecs.inl:31-44)
create_entity_new_id ==
    IF m_free_indices_count > 0
    THEN LET new_index == m_free_indices[m_free_indices_count - 1]
             new_generation == get_generation(m_entities[new_index].id)
         IN  Entity(new_index, new_generation)
    ELSE Entity(m_entities_count, 0)

\* remove_entity leaving the generation as it was
remove_entity_new_id_same_generation(entity) ==
    Entity(INVALID_INDEX, get_generation(entity))

\* the id remove_entity leaves in the slot (lecs.inl:53-54)
remove_entity_new_id(entity) ==
    Entity(INVALID_INDEX, GenerationPlusOne(get_generation(entity)))

\* EntityArray::create_entity.  With no free index and MAX_ENTITIES indices
\* allocated, line 46 writes past the end of m_entities; the callers of the
\* specifications below stay within the configured capacity.
EntityArray_create_entity ==
    /\ m_free_indices_count > 0 \/ m_entities_count < MAX_ENTITIES
    /\ LET new_id == create_entity_new_id
       IN  /\ m_entities' = [m_entities EXCEPT ![get_index(new_id)] = Entry(new_id, EmptyMask)]
           /\ IF m_free_indices_count > 0
              THEN /\ m_free_indices_count' = m_free_indices_count - 1
                   /\ m_entities_count' = m_entities_count
              ELSE /\ m_entities_count' = m_entities_count + 1
                   /\ m_free_indices_count' = m_free_indices_count
           /\ m_free_indices' = m_free_indices
           /\ call' = Call("create_entity", FALSE, FALSE, TRUE, NULLPTR, new_id, "")

\* EntityArray::remove_entity without mask.reset()
EntityArray_remove_entity_keep_mask(entity) ==
    LET new_id == remove_entity_new_id(entity)
        entity_index == get_index(entity)
    IN  /\ m_entities' = [m_entities EXCEPT ![entity_index].id = new_id]
        /\ m_free_indices' = [m_free_indices EXCEPT ![m_free_indices_count] = get_index(entity)]
        /\ m_free_indices_count' = m_free_indices_count + 1
        /\ m_entities_count' = m_entities_count

\* the table after EntityArray::remove_entity(entity)
EntityArray_remove_entity(entity) ==
    LET new_id == remove_entity_new_id(entity)
        entity_index == get_index(entity)
    IN  /\ m_entities' = [m_entities EXCEPT ![entity_index] = Entry(new_id, EmptyMask)]
        /\ m_free_indices' = [m_free_indices EXCEPT ![m_free_indices_count] = get_index(entity)]
        /\ m_free_indices_count' = m_free_indices_count + 1
        /\ m_entities_count' = m_entities_count

\* ------------------------------------------------------------------- ECS
\* is_entity_handle_active comparing the index only
is_entity_handle_active_index_only(entity) ==
    /\ is_valid(entity)
    /\ get_index(get_id(get_index(entity))) = get_index(entity)

is_entity_handle_active(entity) ==
    /\ is_valid(entity)
    /\ get_id(get_index(entity)) = entity

\* m_components after get_component_array_by_component_id<T>(component_id)
get_component_array_by_component_id(component_id) ==
    IF ~m_components[component_id].present
    THEN [m_components EXCEPT ![component_id] = NewComponentArray]
    ELSE m_components

\* the freed indices once a create_entity has taken the latest of them
freed_after_create ==
    IF freed = <<>> THEN freed ELSE SubSeq(freed, 1, Len(freed) - 1)

\* the freed indices once remove_entity(entity) has returned
freed_after_remove(entity) ==
    IF IsLive(entity) THEN Append(freed, get_index(entity)) ELSE freed

create_entity ==
    /\ EntityArray_create_entity
    /\ snapshot' = NoSnapshot
    /\ freed' = freed_after_create
    /\ UNCHANGED <<m_components, component_ids, history, observations>>

\* EntityArray::create_entity with no free index and MAX_ENTITIES indices
\* allocated.  The else branch (lecs.inl:39-44) builds the handle
\* (MAX_ENTITIES, 0) and increments m_entities_count; line 46 then assigns
\* m_entities[MAX_ENTITIES], one Entry past the end of the std::array,
\* which is undefined.  What the members hold afterwards is one of:
\*   - the assignment changed none of them: the count is MAX_ENTITIES + 1;
\*   - the assignment went to the storage that follows m_entities in the
\*     order of declaration (lecs.hpp:168-172): the 64-bit id lies over
\*     m_entities_count, which then reads MAX_ENTITIES, and the empty mask
\*     over the first two elements of m_free_indices, which then read 0.
\* Either way the call returns the handle, and reports nothing.
OverflowOutcomes ==
    {[count |-> MAX_ENTITIES + 1, free |-> m_free_indices],
     [count |-> MAX_ENTITIES,
      free |-> [i \in Indices |-> IF i < 2 THEN 0 ELSE m_free_indices[i]]]}

create_entity_beyond_capacity ==
    /\ m_free_indices_count = 0
    /\ m_entities_count = MAX_ENTITIES
    /\ \E outcome \in OverflowOutcomes :
          /\ m_entities_count' = outcome.count
          /\ m_free_indices' = outcome.free
    /\ m_entities' = m_entities
    /\ m_free_indices_count' = m_free_indices_count
    /\ call' = Call("create_entity", FALSE, FALSE, TRUE, NULLPTR,
                    Entity(MAX_ENTITIES, 0), "")
    /\ snapshot' = NoSnapshot
    /\ UNCHANGED <<m_components, component_ids, history, observations, freed>>

\* the bookkeeping of a successful remove_entity: not state of the program
RecordRemoval(entity) ==
    /\ removed' = removed \cup {entity}
    /\ wrapped' = IF get_generation(entity) = GENERATION_LAST
                  THEN wrapped \cup { r \in removed \cup {entity} : get_index(r) = get_index(entity) }
                  ELSE wrapped
    /\ removes' = removes + 1
    /\ adds' = adds
    /\ recycled' = [recycled EXCEPT ![get_index(entity)].since = @ + 1]

\* the fan-out of lecs.inl:83-85 stopping after the first store
remove_entity_components_first_store_only(entity) ==
    [c \in ComponentIds |->
        IF m_components[c].present /\ c = 0
        THEN on_entity_removed(m_components[c], get_index(entity))
        ELSE m_components[c]]

\* m_components after the fan-out of lecs.inl:83-85
remove_entity_components(entity) ==
    [c \in ComponentIds |->
        IF m_components[c].present
        THEN on_entity_removed(m_components[c], get_index(entity))
        ELSE m_components[c]]

remove_entity(entity) ==
    /\ IF is_entity_handle_active(entity)
       THEN /\ m_components' = remove_entity_components(entity)
            /\ EntityArray_remove_entity(entity)
            /\ RecordRemoval(entity)
            /\ call' = Call("remove_entity", IsLive(entity), FALSE, TRUE, NULLPTR, entity, "")
       ELSE /\ UNCHANGED <<registry, history>>
            /\ call' = Call("remove_entity", IsLive(entity), FALSE, FALSE, NULLPTR, Invalid, "")
    /\ reference' = reference_remove_entity(entity)
    /\ snapshot' = NoSnapshot
    /\ freed' = freed_after_remove(entity)
    /\ UNCHANGED <<component_ids, iteration, inserted, loop, h_loop, lifetime>>

\* the test of lecs.inl:96 without the mask test
add_component_refused_liveness_only(entity, component_id) ==
    ~is_entity_handle_active(entity)

\* the test of lecs.inl:96 with a liveness test that ignores the generation
add_component_refused_generation_blind(entity, component_id) ==
    \/ ~(is_valid(entity) /\ get_index(get_id(get_index(entity))) = get_index(entity))
    \/ component_id \in get_component_mask(get_index(entity))

\* the test of lecs.inl:96
add_component_refused(entity, component_id) ==
    \/ ~is_entity_handle_active(entity)
    \/ component_id \in get_component_mask(get_index(entity))

\* the registry as add_component_to_entity<T>(entity) finds it, kept when
\* the call attaches the component
snapshot_after_add(entity, T) ==
    IF add_component_refused(entity, ComponentID_get(T))
    THEN NoSnapshot
    ELSE [taken |-> TRUE, round_trip |-> FALSE, entity |-> entity, type |-> T,
          m_entities |-> m_entities, m_components |-> m_components]

add_component_to_entity(entity, T) ==
    LET component_id == ComponentID_get(T)
        entity_index == get_index(entity)
    IN  /\ type_id' = ComponentID_type_id_after(T)
        /\ counter' = ComponentID_counter_after(T)
        /\ reference' = reference_add(entity, T)
        /\ snapshot' = snapshot_after_add(entity, T)
        /\ UNCHANGED <<iteration, inserted, loop, h_loop, lifetime, freed>>
        /\ IF add_component_refused(entity, component_id)
           THEN /\ call' = Call("add_component_to_entity", IsLive(entity), Carries(entity, T),
                                FALSE, NULLPTR, Invalid, "")
                /\ UNCHANGED <<registry, history>>
           ELSE LET arrays == get_component_array_by_component_id(component_id)
                IN  /\ m_components' =
                           [arrays EXCEPT ![component_id] =
                               insert_data_default_initialized(@, entity_index)]
                    /\ m_entities' = [m_entities EXCEPT ![entity_index].mask = @ \cup {component_id}]
                    /\ call' = Call("add_component_to_entity", IsLive(entity), Carries(entity, T), TRUE, NULLPTR, entity, T)
                    /\ adds' = adds + 1
                    /\ UNCHANGED <<m_entities_count, m_free_indices, m_free_indices_count,
                                   removed, wrapped, removes, recycled>>

\* the test of lecs.inl:112
remove_component_refused(entity, component_id) ==
    \/ ~is_entity_handle_active(entity)
    \/ component_id \notin get_component_mask(get_index(entity))

\* the registry before an attach is kept over the detach of the same
\* component of the same entity that follows it at once
snapshot_after_remove_component(entity, T) ==
    IF /\ snapshot.taken
       /\ ~snapshot.round_trip
       /\ snapshot.entity = entity
       /\ snapshot.type = T
       /\ ~remove_component_refused(entity, ComponentID_get(T))
    THEN [snapshot EXCEPT !.round_trip = TRUE]
    ELSE NoSnapshot

remove_component_from_entity(entity, T) ==
    LET component_id == ComponentID_get(T)
        entity_index == get_index(entity)
    IN  /\ type_id' = ComponentID_type_id_after(T)
        /\ counter' = ComponentID_counter_after(T)
        /\ reference' = reference_remove(entity, T)
        /\ snapshot' = snapshot_after_remove_component(entity, T)
        /\ UNCHANGED <<iteration, inserted, loop, h_loop, lifetime, freed>>
        /\ IF remove_component_refused(entity, component_id)
           THEN /\ call' = Call("remove_component_from_entity", IsLive(entity), Carries(entity, T),
                                FALSE, NULLPTR, Invalid, "")
                /\ UNCHANGED registry
           ELSE LET arrays == get_component_array_by_component_id(component_id)
                IN  /\ m_components' =
                           [arrays EXCEPT ![component_id] = remove_data(@, entity_index)]
                    /\ m_entities' = [m_entities EXCEPT ![entity_index].mask = @ \ {component_id}]
                    /\ call' = Call("remove_component_from_entity", IsLive(entity), Carries(entity, T), TRUE, NULLPTR, entity, T)
                    /\ UNCHANGED <<m_entities_count, m_free_indices, m_free_indices_count>>
        /\ UNCHANGED history

\* the value has_component<T>(entity) returns in the current state
has_component_value(entity, T) ==
    IF ~is_entity_handle_active(entity)
    THEN FALSE
    ELSE ComponentID_get(T) \in get_component_mask(get_index(entity))

has_component(entity, T) ==
    /\ call' = Call("has_component", IsLive(entity), Carries(entity, T),
                    has_component_value(entity, T), NULLPTR, Invalid, "")
    /\ IF ~is_entity_handle_active(entity)
       THEN UNCHANGED component_ids
       ELSE /\ type_id' = ComponentID_type_id_after(T)
            /\ counter' = ComponentID_counter_after(T)
    /\ snapshot' = NoSnapshot
    /\ UNCHANGED <<registry, history, observations, freed>>

\* get_component fetching the store before the has_component test
get_component_arrays_after_eager(entity, T) ==
    get_component_array_by_component_id(ComponentID_get(T))

\* m_components after get_component<T>(entity): get_component_array<T>() runs
\* only past the has_component test
get_component_arrays_after(entity, T) ==
    IF ~has_component_value(entity, T)
    THEN m_components
    ELSE get_component_array_by_component_id(ComponentID_get(T))

\* the pointer get_component<T>(entity) returns in the current state
get_component_value(entity, T) ==
    IF ~has_component_value(entity, T)
    THEN NULLPTR
    ELSE Pointer(get_component_arrays_after(entity, T)[ComponentID_get(T)]
                     .m_entity_to_index_map[get_index(entity)])

get_component(entity, T) ==
    /\ call' = Call("get_component", IsLive(entity), Carries(entity, T),
                    has_component_value(entity, T), get_component_value(entity, T), Invalid, "")
    /\ IF ~is_entity_handle_active(entity)
       THEN UNCHANGED component_ids
       ELSE /\ type_id' = ComponentID_type_id_after(T)
            /\ counter' = ComponentID_counter_after(T)
    /\ m_components' = get_component_arrays_after(entity, T)
    /\ snapshot' = NoSnapshot
    /\ UNCHANGED <<entity_table, history, observations, freed>>

\* the caller's use of the pointer (test.cpp:133-134):
\* auto tc = ecs->get_component<TransformComponent>(ent4); tc->position[0] = 1.0f;
write_component(entity) ==
    LET T == "TransformComponent"
        p == get_component_value(entity, T)
        arrays == get_component_arrays_after(entity, T)
    IN  /\ has_component_value(entity, T)
        /\ m_components' =
               [arrays EXCEPT ![ComponentID_get(T)].m_component_array[p.slot] = WRITTEN_VALUE]
        /\ call' = Call("write_component", IsLive(entity), Carries(entity, T), TRUE, p, entity, T)
        /\ type_id' = ComponentID_type_id_after(T)
        /\ counter' = ComponentID_counter_after(T)
        /\ reference' = reference_write(entity, T, WRITTEN_VALUE)
        /\ snapshot' = NoSnapshot
        /\ UNCHANGED <<entity_table, history, iteration, inserted, loop, h_loop, lifetime, freed>>

\* -------------------------------------------------------- EntityIterator
get_entity_count == get_count

get_entity_from_index(entity_index) == get_id(entity_index)

\* ComponentID::get<ComponentTypes>()... in the order of the pack: the ids
\* and the counter after the braced list of lecs.hpp:314 was evaluated
RECURSIVE ComponentID_after_pack(_, _)
ComponentID_after_pack(pack, ids) ==
    IF pack = <<>> THEN ids
    ELSE LET T == Head(pack)
         IN  ComponentID_after_pack(
                 Tail(pack),
                 IF T \in DOMAIN ids.type_id THEN ids
                 ELSE [type_id |-> ids.type_id @@ (T :> ids.counter),
                       counter |-> ids.counter + 1])

\* m_component_mask after the constructor
EntityIterator_component_mask(pack) ==
    LET ids == ComponentID_after_pack(pack, [type_id |-> type_id, counter |-> counter])
    IN  {ids.type_id[pack[k]] : k \in 1 .. Len(pack)}

\* m_mask == (m_mask & mask of the entry)
mask_matches(mask, entity_index) == mask \subseteq get_component_mask(entity_index)

\* valid_index testing the handle only
valid_index_any_mask(mask, all, entity_index) ==
    is_valid(get_entity_from_index(entity_index))

valid_index(mask, all, entity_index) ==
    /\ is_valid(get_entity_from_index(entity_index))
    /\ (all \/ mask_matches(mask, entity_index))

\* begin(): the loop tests the mask alone, neither is_valid nor m_all
RECURSIVE begin_first_index(_, _)
begin_first_index(mask, first_index) ==
    IF first_index < get_entity_count /\ ~mask_matches(mask, first_index)
    THEN begin_first_index(mask, first_index + 1)
    ELSE first_index

\* operator++: do { m_entity_index++; } while (...)
RECURSIVE operator_increment(_, _, _)
operator_increment(mask, all, entity_index) ==
    LET next_index == entity_index + 1
    IN  IF next_index < get_entity_count /\ ~valid_index(mask, all, next_index)
        THEN operator_increment(mask, all, next_index)
        ELSE next_index

\* for (auto e : iterator): it != end() compares the index with
\* m_entity_count, *it reads the handle stored at the index
RECURSIVE range_for_from(_, _, _)
range_for_from(mask, all, entity_index) ==
    IF entity_index # get_entity_count
    THEN <<get_entity_from_index(entity_index)>>
             \o range_for_from(mask, all, operator_increment(mask, all, entity_index))
    ELSE <<>>

range_for(pack) ==
    LET mask == EntityIterator_component_mask(pack)
        all == Len(pack) = 0
    IN  range_for_from(mask, all, begin_first_index(mask, 0))

\* operator!= as the loop test it != end() uses it
operator_not_equal(entity_index, other_entity_index) ==
    entity_index # other_entity_index \/ entity_index # get_entity_count

\* end(): the position m_entity_count
end_index == get_entity_count

\* the positions of the iterator of a range-for, from entity_index on: the
\* loop goes on while it != end()
RECURSIVE positions_from(_, _, _)
positions_from(mask, all, entity_index) ==
    IF operator_not_equal(entity_index, end_index)
    THEN <<entity_index>>
             \o positions_from(mask, all, operator_increment(mask, all, entity_index))
    ELSE <<entity_index>>

positions(pack) ==
    LET mask == EntityIterator_component_mask(pack)
    IN  positions_from(mask, Len(pack) = 0, begin_first_index(mask, 0))

\* the indices whose entry begin() reads, from first_index on
RECURSIVE begin_reads(_, _)
begin_reads(mask, first_index) ==
    IF first_index < get_entity_count
    THEN {first_index} \cup (IF ~mask_matches(mask, first_index)
                             THEN begin_reads(mask, first_index + 1)
                             ELSE {})
    ELSE {}

\* the indices whose entry one operator++ reads, from entity_index on
RECURSIVE increment_reads(_, _, _)
increment_reads(mask, all, entity_index) ==
    LET next_index == entity_index + 1
    IN  IF next_index < get_entity_count
        THEN {next_index} \cup (IF ~valid_index(mask, all, next_index)
                                THEN increment_reads(mask, all, next_index)
                                ELSE {})
        ELSE {}

\* every index whose entry a range-for reads: those of begin(), and at each
\* position before the last those of operator* and of operator++
range_for_reads(pack) ==
    LET mask == EntityIterator_component_mask(pack)
        all == Len(pack) = 0
        seq == positions(pack)
    IN  begin_reads(mask, 0)
            \cup UNION {{seq[k]} \cup increment_reads(mask, all, seq[k]) :
                            k \in 1 .. (Len(seq) - 1)}

\* for (auto e : lecs::EntityIterator<pack...>(ecs)) { } as one step: the
\* loop body changes nothing
iterate(pack) ==
    LET ids == ComponentID_after_pack(pack, [type_id |-> type_id, counter |-> counter])
    IN  /\ iteration' = [required |-> pack, yielded |-> range_for(pack), ran |-> TRUE]
        /\ type_id' = ids.type_id
        /\ counter' = ids.counter
        /\ call' = Call("EntityIterator", FALSE, FALSE, TRUE, NULLPTR, Invalid, "")
        /\ snapshot' = NoSnapshot
        /\ UNCHANGED <<entity_table, m_components, history, reference, inserted,
                       loop, h_loop, lifetime, freed>>

\* the loop is over and its result forgotten
end_of_loop ==
    /\ iteration.ran
    /\ iteration' = NoIteration
    /\ snapshot' = NoSnapshot
    /\ UNCHANGED <<entity_table, registry, component_ids, call, history,
                   reference, inserted, loop, h_loop, lifetime, freed>>

\* ------------------------------------------- a range-for, step by step
\* for (auto e : lecs::EntityIterator<pack...>(ecs)) { body } with a body
\* that calls the registry: begin() and end() are taken once, then the
\* loop alternates it != end(), *it, the body, ++it.

\* the count an Iterator scans up to, read through the registry at every use
Iterator_entity_count_live(it) == get_entity_count

\* Iterator::m_entity_count, captured by the constructor (lecs.hpp:322)
Iterator_entity_count(it) == it.m_entity_count

\* Iterator::operator== (lecs.hpp:328-330)
Iterator_operator_equal(it, other) ==
    \/ it.m_entity_index = other.m_entity_index
    \/ it.m_entity_index = Iterator_entity_count(it)

\* Iterator::operator!= (lecs.hpp:332-334)
Iterator_operator_not_equal(it, other) ==
    \/ it.m_entity_index # other.m_entity_index
    \/ it.m_entity_index # Iterator_entity_count(it)

\* ---- the Iterator of src/lecs.h beside the one of src/lecs/lecs.hpp
\* src/lecs.h keeps no count: its Iterator reads get_entity_count() at every
\* use.  A range-for makes end() once, when the loop begins, and compares
\* the moving Iterator with that value; h_loop.end_entity_index is its
\* m_entity_index.  h_loop follows the steps loop takes until the two
\* Iterators answer it != end() differently.

\* begin() and end() of src/lecs.h when the loop begins (lecs.h:496-508)
lecs_h_begin(mask) ==
    [active |-> TRUE, diverged |-> FALSE,
     m_entity_index |-> begin_first_index(mask, 0),
     end_entity_index |-> get_entity_count]

\* it != end() in src/lecs.h (lecs.h:472-474)
lecs_h_operator_not_equal(it) ==
    \/ it.m_entity_index # it.end_entity_index
    \/ it.m_entity_index # get_entity_count

\* operator++ of src/lecs.h (lecs.h:476-482)
RECURSIVE lecs_h_operator_increment(_, _, _)
lecs_h_operator_increment(mask, all, entity_index) ==
    LET next_index == entity_index + 1
    IN  IF /\ next_index < get_entity_count
           /\ ~valid_index(mask, all, next_index)
        THEN lecs_h_operator_increment(mask, all, next_index)
        ELSE next_index

\* h_loop after the loop test, which the Iterator of lecs.hpp answered with
\* goes_on
lecs_h_after_test(goes_on) ==
    IF h_loop.diverged \/ ~h_loop.active THEN h_loop
    ELSE IF lecs_h_operator_not_equal(h_loop) # goes_on
         THEN [h_loop EXCEPT !.diverged = TRUE]
         ELSE IF goes_on THEN h_loop ELSE lecs_h_NoLoop

\* h_loop after ++it
lecs_h_after_increment ==
    IF h_loop.diverged \/ ~h_loop.active THEN h_loop
    ELSE [h_loop EXCEPT !.m_entity_index =
                            lecs_h_operator_increment(loop.m_mask, loop.m_all, @)]

\* begin(): EntityIterator captured the count in its own constructor, the
\* Iterator begin() returns captures it again, with no call in between
loop_begin(pack) ==
    LET mask == EntityIterator_component_mask(pack)
    IN  /\ ~loop.active
        /\ loop' = [active |-> TRUE, in_body |-> FALSE,
                    m_entity_index |-> begin_first_index(mask, 0),
                    m_entity_count |-> get_entity_count,
                    m_mask |-> mask, m_all |-> (Len(pack) = 0), advances |-> 0]
        /\ h_loop' = lecs_h_begin(mask)
        /\ type_id' = ComponentID_after_pack(pack, [type_id |-> type_id, counter |-> counter]).type_id
        /\ counter' = ComponentID_after_pack(pack, [type_id |-> type_id, counter |-> counter]).counter
        /\ snapshot' = NoSnapshot
        /\ UNCHANGED <<entity_table, m_components, call, history, reference, iteration,
                       inserted, lifetime, freed>>

\* it != end() holds: *it is read and the body entered
loop_enter_body ==
    /\ loop.active
    /\ ~loop.in_body
    /\ loop.m_entity_index # Iterator_entity_count(loop)
    /\ loop' = [loop EXCEPT !.in_body = TRUE]
    /\ h_loop' = lecs_h_after_test(TRUE)
    /\ snapshot' = NoSnapshot
    /\ UNCHANGED <<entity_table, registry, component_ids, call, history, reference,
                   iteration, inserted, lifetime, freed>>

\* it != end() fails: the loop is over
loop_exit ==
    /\ loop.active
    /\ ~loop.in_body
    /\ loop.m_entity_index = Iterator_entity_count(loop)
    /\ loop' = NoLoop
    /\ h_loop' = lecs_h_after_test(FALSE)
    /\ snapshot' = NoSnapshot
    /\ UNCHANGED <<entity_table, registry, component_ids, call, history, reference,
                   iteration, inserted, lifetime, freed>>

\* operator++ on the registry as the body left it
RECURSIVE Iterator_increment(_, _)
Iterator_increment(it, entity_index) ==
    LET next_index == entity_index + 1
    IN  IF /\ next_index < Iterator_entity_count(it)
           /\ ~valid_index(it.m_mask, it.m_all, next_index)
        THEN Iterator_increment(it, next_index)
        ELSE next_index

\* the end of the body: ++it
loop_advance ==
    /\ loop.active
    /\ loop.in_body
    /\ loop' = [loop EXCEPT !.in_body = FALSE,
                            !.m_entity_index = Iterator_increment(loop, loop.m_entity_index),
                            !.advances = @ + 1]
    /\ h_loop' = lecs_h_after_increment
    /\ snapshot' = NoSnapshot
    /\ UNCHANGED <<entity_table, registry, component_ids, call, history, reference,
                   iteration, inserted, lifetime, freed>>

\* --------------------------------------------------------- specification
\* std::make_unique<lecs::ECS>() (test.cpp:111): every Entry holds
\* Entity::Invalid and an empty mask, both counts are 0.
InitFresh ==
    /\ m_entities = [i \in Indices |-> Entry(Invalid, EmptyMask)]
    /\ m_entities_count = 0
    /\ m_free_indices = [i \in Indices |-> UNWRITTEN]
    /\ m_free_indices_count = 0
    /\ removed = {}
    /\ freed = <<>>
    /\ recycled = [i \in Indices |-> [before |-> 0, since |-> 0]]

\* The same table after a create_entity/remove_entity loop of 2^32 - 1
\* rounds (the loops of test.cpp:76-103 run 10^7 rounds each): index 0 is
\* free, its slot holds generation 0xFFFFFFFF, and the caller still holds
\* the first handle it was given, Entity(0, 0).
InitAged ==
    /\ m_entities = [i \in Indices |->
                        IF i = 0 THEN Entry(Entity(INVALID_INDEX, GENERATION_LAST), EmptyMask)
                        ELSE Entry(Invalid, EmptyMask)]
    /\ m_entities_count = 1
    /\ m_free_indices = [i \in Indices |-> IF i = 0 THEN 0 ELSE UNWRITTEN]
    /\ m_free_indices_count = 1
    /\ removed = {Entity(0, 0)}
    /\ freed = <<0>>
    /\ recycled = [i \in Indices |->
                      [before |-> IF i = 0 THEN GENERATION_LAST ELSE 0, since |-> 0]]

\* every store is null; main has referenced both component types in the
\* order of test.cpp:108-109
InitRest ==
    /\ m_components = [c \in ComponentIds |-> NullComponentArray]
    /\ type_id = ("TransformComponent" :> 0) @@ ("VelocityComponent" :> 1)
    /\ counter = 2
    /\ call = Call("init", FALSE, FALSE, TRUE, NULLPTR, Invalid, "")
    /\ wrapped = {}
    /\ removes = 0
    /\ adds = 0
    /\ reference = EmptyReference
    /\ iteration = NoIteration
    /\ inserted = <<>>
    /\ loop = NoLoop
    /\ h_loop = lecs_h_NoLoop
    /\ lifetime = NoLifetime
    /\ snapshot = NoSnapshot

Init == InitFresh /\ InitRest

\* the caps of a run: a call that would change the registry is taken only
\* below its cap
RemoveAllowed(entity, cap) == IsLive(entity) => removes < cap

AddAllowed(entity, T, cap) ==
    ~add_component_refused(entity, ComponentID_get(T)) => adds < cap

\* the operations that change the registry, and the caller's writes
Next ==
    \/ create_entity
    \/ \E entity \in Handles : RemoveAllowed(entity, MaxRemoves) /\ remove_entity(entity)
    \/ \E entity \in Handles, T \in Types :
          AddAllowed(entity, T, MaxAdds) /\ add_component_to_entity(entity, T)
    \/ \E entity \in Handles, T \in Types : remove_component_from_entity(entity, T)
    \/ \E entity \in Handles : write_component(entity)

Spec == Init /\ [][Next]_vars

\* the operations of the registry with its queries
NextQueries ==
    \/ create_entity
    \/ \E entity \in Handles : RemoveAllowed(entity, MaxQueryRemoves) /\ remove_entity(entity)
    \/ \E entity \in Handles, T \in Types :
          AddAllowed(entity, T, MaxQueryAdds) /\ add_component_to_entity(entity, T)
    \/ \E entity \in Handles, T \in Types : remove_component_from_entity(entity, T)
    \/ \E entity \in Handles, T \in Types : has_component(entity, T)
    \/ \E entity \in Handles, T \in Types : get_component(entity, T)

SpecQueries == Init /\ [][NextQueries]_vars

\* the entity table alone, from the fresh and from the aged table
InitEntities == (InitFresh \/ InitAged) /\ InitRest

NextEntities ==
    \/ create_entity
    \/ \E entity \in Handles : RemoveAllowed(entity, MaxEntityRemoves) /\ remove_entity(entity)

SpecEntities == InitEntities /\ [][NextEntities]_vars

\* the entity table up to and beyond its capacity; nothing is run on the
\* table once a create_entity has written past its end
Overflowed == call.op = "create_entity" /\ get_index(call.entity) = MAX_ENTITIES

NextCapacity ==
    \/ ~Overflowed /\ create_entity
    \/ ~Overflowed /\ create_entity_beyond_capacity
    \/ \E entity \in Handles :
          /\ ~Overflowed
          /\ RemoveAllowed(entity, MaxEntityRemoves)
          /\ remove_entity(entity)

SpecCapacity == Init /\ [][NextCapacity]_vars

\* the registry and the range-for loops over it: the calls between two
\* loops come from the handles that are live
Packs ==
    {<<>>, <<"TransformComponent">>, <<"VelocityComponent">>,
     <<"TransformComponent", "VelocityComponent">>,
     <<"VelocityComponent", "TransformComponent">>}

NextIterator ==
    \/ ~iteration.ran /\ create_entity
    \/ \E entity \in LiveHandles :
          ~iteration.ran /\ RemoveAllowed(entity, MaxIterRemoves) /\ remove_entity(entity)
    \/ \E entity \in LiveHandles, T \in Types :
          /\ ~iteration.ran
          /\ AddAllowed(entity, T, MaxIterAdds)
          /\ add_component_to_entity(entity, T)
    \/ \E entity \in LiveHandles, T \in Types :
          ~iteration.ran /\ remove_component_from_entity(entity, T)
    \/ \E pack \in Packs : iterate(pack)
    \/ end_of_loop

SpecIterator == Init /\ [][NextIterator]_vars

\* a process that has referenced no component type yet: the same registry
\* with ComponentID::counter at its initialiser (lecs.hpp:91) and no
\* function-local static id initialised
InitIds ==
    /\ InitFresh
    /\ m_components = [c \in ComponentIds |-> NullComponentArray]
    /\ type_id = [T \in {} |-> 0]
    /\ counter = 0
    /\ call = Call("init", FALSE, FALSE, TRUE, NULLPTR, Invalid, "")
    /\ wrapped = {}
    /\ removes = 0
    /\ adds = 0
    /\ reference = EmptyReference
    /\ iteration = NoIteration
    /\ inserted = <<>>
    /\ loop = NoLoop
    /\ h_loop = lecs_h_NoLoop
    /\ lifetime = NoLifetime
    /\ snapshot = NoSnapshot

CreateAllowed(cap) == m_free_indices_count > 0 \/ m_entities_count < cap

\* every operation that names a component type, on few entities; the
\* loop body calls nothing
NextIds ==
    \/ ~iteration.ran /\ CreateAllowed(MaxIdsEntities) /\ create_entity
    \/ \E entity \in Handles :
          ~iteration.ran /\ RemoveAllowed(entity, MaxQueryRemoves) /\ remove_entity(entity)
    \/ \E entity \in Handles, T \in Types :
          /\ ~iteration.ran
          /\ AddAllowed(entity, T, MaxQueryAdds)
          /\ add_component_to_entity(entity, T)
    \/ \E entity \in Handles, T \in Types :
          ~iteration.ran /\ remove_component_from_entity(entity, T)
    \/ \E entity \in Handles, T \in Types : ~iteration.ran /\ has_component(entity, T)
    \/ \E entity \in Handles, T \in Types : ~iteration.ran /\ get_component(entity, T)
    \/ \E pack \in Packs : iterate(pack)
    \/ end_of_loop

SpecIds == InitIds /\ [][NextIds]_vars

\* the registry and one range-for at a time whose body calls the registry:
\* the calls run before a loop, or inside its body
BetweenAdvances == ~loop.active \/ loop.in_body

NextLoop ==
    \/ BetweenAdvances /\ create_entity
    \/ \E entity \in LiveHandles :
          BetweenAdvances /\ RemoveAllowed(entity, MaxLoopRemoves) /\ remove_entity(entity)
    \/ \E entity \in LiveHandles, T \in Types :
          /\ BetweenAdvances
          /\ AddAllowed(entity, T, MaxLoopAdds)
          /\ add_component_to_entity(entity, T)
    \/ \E entity \in LiveHandles, T \in Types :
          BetweenAdvances /\ remove_component_from_entity(entity, T)
    \/ \E pack \in Packs : loop_begin(pack)
    \/ loop_enter_body
    \/ loop_advance
    \/ loop_exit

SpecLoop == Init /\ [][NextLoop]_vars

\* ------------------------------------------------------- one store alone
\* ComponentArray<TransformComponent> driven as lecs::ECS drives it
\* (lecs.inl:96-101, 112-117, lecs.hpp:259-263): insert for an index without
\* data, remove for an index with data, on_entity_removed for any index, and
\* writes through the reference get_data_from_entity_index returns.  The
\* store under test is m_components[STORE].
STORE == 0

\* what the elements of m_index_to_entity_map, which no constructor writes,
\* may hold: an entity index, the marker, or a value that is neither
IndeterminateIndices == Indices \cup {INVALID_INDEX, MAX_ENTITIES}

\* the state after ComponentArray(): see NewComponentArray
InitStore ==
    /\ InitFresh
    /\ \E bytes \in [Indices -> IndeterminateIndices] :
          m_components =
              [c \in ComponentIds |->
                  IF c = STORE
                  THEN [NewComponentArray EXCEPT !.m_index_to_entity_map = bytes]
                  ELSE NullComponentArray]
    /\ type_id = ("TransformComponent" :> 0) @@ ("VelocityComponent" :> 1)
    /\ counter = 2
    /\ call = Call("init", FALSE, FALSE, TRUE, NULLPTR, Invalid, "")
    /\ wrapped = {}
    /\ removes = 0
    /\ adds = 0
    /\ reference = EmptyReference
    /\ iteration = NoIteration
    /\ inserted = <<>>
    /\ loop = NoLoop
    /\ h_loop = lecs_h_NoLoop
    /\ lifetime = NoLifetime
    /\ snapshot = NoSnapshot

\* the record of a store-level call: the entity index passed (as a handle
\* of generation 0), whether it had data, and the dense slot concerned
StoreCall(op, entity_index, slot) ==
    Call(op, FALSE, has_data(m_components[STORE], entity_index), TRUE,
         slot, Entity(entity_index, 0), "TransformComponent")

SlotOf(entity_index) ==
    IF has_data(m_components[STORE], entity_index)
    THEN Pointer(m_components[STORE].m_entity_to_index_map[entity_index])
    ELSE NULLPTR

inserted_without(entity_index) ==
    SelectSeq(inserted, LAMBDA i : i # entity_index)

\* ---- object lifetime in the dense array
\* m_component_array is raw storage (lecs.hpp:266-270); a T lives in a slot
\* from the placement new of construct_at_index to the explicit ~T() of
\* destroy_at_index.  lifetime.alive is the set of slots holding a T,
\* lifetime.faults what went wrong with a lifetime so far.
CONSTRUCTED_OVER_LIVE == "constructed over a live value"
DESTROYED_NOT_LIVE == "destroyed a slot holding no live value"
READ_NOT_LIVE == "read a slot holding no live value"

\* new (&m_component_array[component_index].bytes[0]) T...
lifetime_construct(lt, component_index) ==
    [alive |-> lt.alive \cup {component_index},
     faults |-> lt.faults \cup
                    (IF component_index \in lt.alive THEN {CONSTRUCTED_OVER_LIVE} ELSE {})]

\* get_data_from_component_index(component_index).~T()
lifetime_destroy(lt, component_index) ==
    [alive |-> lt.alive \ {component_index},
     faults |-> lt.faults \cup
                    (IF component_index \in lt.alive THEN {} ELSE {DESTROYED_NOT_LIVE})]

\* the T at component_index is read, as the source of a move or through a
\* reference
lifetime_read(lt, component_index) ==
    [alive |-> lt.alive,
     faults |-> lt.faults \cup
                    (IF component_index \in lt.alive THEN {} ELSE {READ_NOT_LIVE})]

insert_data_default_initialized_lifetime(lt, s, entity_index) ==
    LET new_index == s.m_size
    IN  lifetime_construct(lt, new_index)

\* remove_data without its last destroy_at_index
remove_data_lifetime_leaking_last(lt, s, entity_index) ==
    LET index_of_removed_entity == s.m_entity_to_index_map[entity_index]
        index_of_last_element == s.m_size - 1
        l1 == lifetime_destroy(lt, index_of_removed_entity)
        l2 == lifetime_read(l1, index_of_last_element)
    IN  lifetime_construct(l2, index_of_removed_entity)

\* the three lifetime statements of remove_data, in the order of the code;
\* the move constructor reads its source before the target holds a T
remove_data_lifetime(lt, s, entity_index) ==
    LET index_of_removed_entity == s.m_entity_to_index_map[entity_index]
        index_of_last_element == s.m_size - 1
        l1 == lifetime_destroy(lt, index_of_removed_entity)
        l2 == lifetime_read(l1, index_of_last_element)
        l3 == lifetime_construct(l2, index_of_removed_entity)
    IN  lifetime_destroy(l3, index_of_last_element)

on_entity_removed_lifetime(lt, s, entity_index) ==
    IF has_data(s, entity_index) THEN remove_data_lifetime(lt, s, entity_index) ELSE lt

\* ~ComponentArray(): for (i = from; i < m_size; ++i) destroy_at_index(i)
RECURSIVE destructor_lifetime(_, _, _)
destructor_lifetime(lt, s, from) ==
    IF from < s.m_size
    THEN destructor_lifetime(lifetime_destroy(lt, from), s, from + 1)
    ELSE lt

store_frame ==
    /\ snapshot' = NoSnapshot
    /\ UNCHANGED <<entity_table, component_ids, history, reference, iteration, loop, h_loop, freed>>

store_insert(entity_index) ==
    /\ ~has_data(m_components[STORE], entity_index)
    /\ m_components' = [m_components EXCEPT
                           ![STORE] = insert_data_default_initialized(@, entity_index)]
    /\ call' = StoreCall("insert_data_default_initialized", entity_index,
                         Pointer(m_components[STORE].m_size))
    /\ inserted' = Append(inserted, entity_index)
    /\ lifetime' = insert_data_default_initialized_lifetime(lifetime, m_components[STORE],
                                                          entity_index)
    /\ store_frame

store_remove(entity_index) ==
    /\ has_data(m_components[STORE], entity_index)
    /\ m_components' = [m_components EXCEPT ![STORE] = remove_data(@, entity_index)]
    /\ call' = StoreCall("remove_data", entity_index, SlotOf(entity_index))
    /\ inserted' = inserted_without(entity_index)
    /\ lifetime' = remove_data_lifetime(lifetime, m_components[STORE], entity_index)
    /\ store_frame

store_on_entity_removed(entity_index) ==
    /\ m_components' = [m_components EXCEPT ![STORE] = on_entity_removed(@, entity_index)]
    /\ call' = StoreCall("on_entity_removed", entity_index, SlotOf(entity_index))
    /\ inserted' = inserted_without(entity_index)
    /\ lifetime' = on_entity_removed_lifetime(lifetime, m_components[STORE], entity_index)
    /\ store_frame

store_write(entity_index) ==
    /\ has_data(m_components[STORE], entity_index)
    /\ m_components' =
           [m_components EXCEPT
               ![STORE].m_component_array[m_components[STORE].m_entity_to_index_map[entity_index]] =
                   WRITTEN_VALUE]
    /\ call' = StoreCall("write", entity_index, SlotOf(entity_index))
    /\ inserted' = inserted
    /\ lifetime' = lifetime_read(lifetime,
                                 m_components[STORE].m_entity_to_index_map[entity_index])
    /\ store_frame

\* the store goes away with its registry: ~ECS() resets m_components[STORE]
\* and the virtual destructor runs ~ComponentArray()
store_destroy ==
    /\ m_components[STORE].present
    /\ m_components' = [m_components EXCEPT ![STORE] = NullComponentArray]
    /\ call' = Call("~ComponentArray", FALSE, FALSE, TRUE,
                    Pointer(m_components[STORE].m_size), Invalid, "TransformComponent")
    /\ inserted' = inserted
    /\ lifetime' = destructor_lifetime(lifetime, m_components[STORE], 0)
    /\ store_frame

\* no member function runs on a store after its destructor
NextStore ==
    \/ /\ m_components[STORE].present
       /\ \E entity_index \in Indices : store_insert(entity_index)
    \/ \E entity_index \in Indices : store_remove(entity_index)
    \/ /\ m_components[STORE].present
       /\ \E entity_index \in Indices : store_on_entity_removed(entity_index)
    \/ \E entity_index \in Indices : store_write(entity_index)
    \/ store_destroy

SpecStore == InitStore /\ [][NextStore]_vars

\* ================================================================ claims
\* the payload of e's component of type T
ValueOf(e, T) ==
    LET s == m_components[ComponentID_get(T)]
    IN  s.m_component_array[s.m_entity_to_index_map[get_index(e)]]

\* the index of a removed handle is occupied by a newer live entity
Reoccupied(e) ==
    /\ ~IsLive(e)
    /\ get_index(m_entities[get_index(e)].id) = get_index(e)

\* ------------------------------------------------------------------- C1
\* C1 as stated: a handle that was live and was removed by remove_entity
\* never tests live again, however often its index is recycled.
C1_RemovedNeverLiveAgain ==
    \A e \in removed : ~is_entity_handle_active(e)

\* C1 amended: a handle that was live and was removed by remove_entity does
\* not test live again as long as the 32-bit generation counter of its index
\* has not wrapped from 0xFFFFFFFF to 0 at or after its removal.
C1_RemovedNotLiveBeforeWrap ==
    \A e \in removed \ wrapped : ~is_entity_handle_active(e)

\* a removed handle whose index has been recycled at least twice since and
\* is occupied by a newer entity now
C1_Witness ==
    \E e \in removed \ wrapped :
        /\ Reoccupied(e)
        /\ get_generation(m_entities[get_index(e)].id)
               # GenerationPlusOne(get_generation(e))

\* ------------------------------------------------------------------- C2
\* C2: when a live entity (i, g) has been removed and create_entity is the
\* next call, with i the only index pending reuse, create_entity returns the
\* handle (i, g + 1), g + 1 taken in EntityGeneration arithmetic.
C2_FreeListReuse ==
    [][ ( /\ call.op = "remove_entity"
          /\ call.ok
          /\ m_free_indices_count = 1
          /\ call'.op = "create_entity" )
        => call'.entity = Entity(get_index(call.entity),
                                 GenerationPlusOne(get_generation(call.entity))) ]_vars

\* e0, e1, e2 created, e1 removed, and the next create_entity has returned
\* index 1 with generation 1 while e0 and e2 are live
C2_Witness ==
    /\ call.op = "create_entity"
    /\ call.entity = Entity(1, 1)
    /\ Entity(1, 0) \in removed
    /\ IsLive(Entity(0, 0))
    /\ IsLive(Entity(2, 0))
    /\ IsLive(Entity(1, 1))

\* the handles a run can produce
AllHandles ==
    { Entity(i, g) : i \in Indices,
                     g \in GENERATION_LAST .. (MaxRemoves + MaxEntityRemoves + MaxQueryRemoves) }

\* ------------------------------------------------------------------- C3
\* C3: for every handle e that is not live (the default handle, a
\* never-created index, a removed handle, a stale handle whose index a newer
\* entity occupies) add_component_to_entity and remove_component_from_entity
\* return false, has_component returns false, get_component returns nullptr,
\* and the entity table, the masks and the component stores are unchanged.
C3_InvalidHandlePolicy ==
    [][ ( /\ call'.op \in {"add_component_to_entity", "remove_component_from_entity",
                           "has_component", "get_component"}
          /\ ~call'.live )
        => ( /\ ~call'.ok
             /\ call'.ptr = NULLPTR
             /\ UNCHANGED registry ) ]_vars

\* add_component_to_entity has just refused a handle that is not live, while
\* the index of a removed handle is occupied by a newer entity with components
C3_Witness ==
    /\ call.op = "add_component_to_entity"
    /\ ~call.live
    /\ ~call.ok
    /\ \E e \in removed :
          /\ Reoccupied(e)
          /\ m_entities[get_index(e)].mask # EmptyMask

\* ------------------------------------------------------------------- C4
\* C4: add_component_to_entity<T>(e) on a live e that carries T returns
\* false, and remove_component_from_entity<T>(e) on a live e that lacks T
\* returns false; both leave the table, the masks and the stores unchanged.
C4_DuplicateAttachMissingDetach ==
    [][ /\ (call'.op = "add_component_to_entity" /\ call'.live /\ call'.carried)
              => (~call'.ok /\ UNCHANGED registry)
        /\ (call'.op = "remove_component_from_entity" /\ call'.live /\ ~call'.carried)
              => (~call'.ok /\ UNCHANGED registry) ]_vars

\* add_component_to_entity has just refused a live handle, whose component
\* still holds the value written to it
C4_Witness ==
    /\ call.op = "add_component_to_entity"
    /\ call.live
    /\ ~call.ok
    /\ \E e \in LiveHandles :
          /\ Carries(e, "TransformComponent")
          /\ ValueOf(e, "TransformComponent") = WRITTEN_VALUE

\* ------------------------------------------------------------------- C5
\* C5: add_component_to_entity<T>(e) on a live e that lacks T returns true;
\* afterwards has_component<T>(e) is true, get_component<T>(e) is non-null
\* and refers to a default-constructed T, and the store of T has grown by one.
C5_SuccessfulAttach ==
    [][ (call'.op = "add_component_to_entity" /\ call'.live /\ ~call'.carried) =>
          /\ call'.ok
          /\ call'.entity \in AllHandles
          /\ \A e \in AllHandles, T \in Types :
                (call'.entity = e /\ call'.type = T) =>
                    /\ IsLive(e) /\ ~Carries(e, T)
                    /\ has_component_value(e, T)'
                    /\ get_component_value(e, T)' # NULLPTR
                    /\ ValueOf(e, T)' = DEFAULT_VALUE
                    /\ StoreSize(ComponentID_get(T))' = StoreSize(ComponentID_get(T)) + 1 ]_vars

\* the entity at a recycled index has just been given a component, the
\* second attach of the run, into a store that is empty otherwise
C5_Witness ==
    /\ call.op = "add_component_to_entity"
    /\ call.ok
    /\ adds = 2
    /\ call.entity \notin removed
    /\ \E e \in removed : get_index(e) = get_index(call.entity)
    /\ StoreSize(ComponentID_get(call.type)) = 1
    /\ ValueOf(call.entity, call.type) = DEFAULT_VALUE

\* ------------------------------------------------------------------- C6
\* C6: remove_component_from_entity<T>(e) on a live e that carries T returns
\* true; afterwards has_component<T>(e) is false, get_component<T>(e) is
\* nullptr, the store of T has shrunk by one, and add_component_to_entity<T>(e)
\* is accepted again.
C6_SuccessfulDetach ==
    [][ (call'.op = "remove_component_from_entity" /\ call'.live /\ call'.carried) =>
          /\ call'.ok
          /\ call'.entity \in AllHandles
          /\ \A e \in AllHandles, T \in Types :
                (call'.entity = e /\ call'.type = T) =>
                    /\ Carries(e, T)
                    /\ ~has_component_value(e, T)'
                    /\ get_component_value(e, T)' = NULLPTR
                    /\ StoreSize(ComponentID_get(T))' = StoreSize(ComponentID_get(T)) - 1
                    /\ ~add_component_refused(e, ComponentID_get(T))' ]_vars

\* a component has just been detached from a live entity while another
\* entity keeps its component of that type
C6_Witness ==
    /\ call.op = "remove_component_from_entity"
    /\ call.ok
    /\ IsLive(call.entity)
    /\ ~Carries(call.entity, call.type)
    /\ StoreSize(ComponentID_get(call.type)) = 1

\* ------------------------------------------------------------------- C7
\* C7: get_component<T>(e) returns nullptr exactly when has_component<T>(e)
\* is false, and otherwise the address of the dense slot the store of T
\* associates with e's index; has_component and get_component create no
\* store and change nothing of the registry.
C7_QueriesArePure ==
    [][ /\ call'.op = "has_component" =>
              /\ call'.ok = call'.carried
              /\ UNCHANGED registry
        /\ call'.op = "get_component" =>
              /\ call'.ok = call'.carried
              /\ (call'.ptr = NULLPTR) <=> ~call'.ok
              /\ UNCHANGED registry
        /\ (call'.op = "get_component" /\ call'.ok) =>
              \A e \in Handles, T \in Types :
                  get_component(e, T) =>
                      /\ Carries(e, T)
                      /\ call'.ptr = Pointer(m_components[ComponentID_get(T)]
                                               .m_entity_to_index_map[get_index(e)])
                      /\ call'.ptr.slot \in 0 .. (StoreSize(ComponentID_get(T)) - 1) ]_vars

\* get_component has just returned the first dense slot of a store whose
\* only value belongs to the entity at index 1
C7_Witness ==
    /\ call.op = "get_component"
    /\ call.live
    /\ call.ok
    /\ call.ptr = Pointer(0)
    /\ \E c \in ComponentIds : StoreHolds(c, 1) /\ StoreSize(c) = 1
    /\ \A c \in ComponentIds : ~StoreHolds(c, 0)

\* ------------------------------------------------------------------- C8
\* C8: remove_entity(e) with e not live changes nothing: a second
\* remove_entity of the same handle pushes no index and bumps no generation,
\* and removing a stale handle leaves the newer entity at its index alone.
C8_RemoveNotLiveIsNoOp ==
    [][ (call'.op = "remove_entity" /\ ~call'.live)
        => (~call'.ok /\ UNCHANGED <<registry, history>>) ]_vars

\* remove_entity has just been called with a handle that is not live while
\* the index of a removed handle is occupied by a newer, live entity
C8_Witness ==
    /\ call.op = "remove_entity"
    /\ ~call.live
    /\ ~call.ok
    /\ \E e \in removed : Reoccupied(e) /\ IsLive(m_entities[get_index(e)].id)

\* ------------------------------------------------------------------- C9
\* C9: after remove_entity(e) on a live e no component store holds an entry
\* for e's index, and the handle create_entity returns next for a recycled
\* index has an empty mask, has_component false and get_component nullptr
\* for every component type.
C9_RemoveEntityDetachesAll ==
    [][ /\ (call'.op = "remove_entity" /\ call'.live) =>
              /\ call'.ok
              /\ call'.entity \in AllHandles
              /\ \A e \in AllHandles :
                    call'.entity = e =>
                        /\ IsLive(e)
                        /\ ~IsLive(e)'
                        /\ \A c \in ComponentIds : ~StoreHolds(c, get_index(e))'
        /\ call'.op = "create_entity" =>
              /\ call'.entity \in AllHandles
              /\ \A e \in AllHandles :
                    call'.entity = e =>
                        /\ IsLive(e)'
                        /\ get_component_mask(get_index(e))' = EmptyMask
                        /\ \A c \in ComponentIds : ~StoreHolds(c, get_index(e))'
                        /\ \A T \in Types :
                              /\ ~has_component_value(e, T)'
                              /\ get_component_value(e, T)' = NULLPTR ]_vars

\* the only entity created so far has just been removed while it carried
\* both component types: both stores exist and are empty
C9_Witness ==
    /\ call.op = "remove_entity"
    /\ call.ok
    /\ adds = 2
    /\ m_entities_count = 1
    /\ \A c \in ComponentIds : m_components[c].present /\ m_components[c].m_size = 0

\* ------------------------------------------------------------------ C10
\* C10: in every reachable state, for every entity index i and component id
\* c, bit c of the mask at i is set iff the store of c exists and has_data(i).
C10_MaskConsistency ==
    \A i \in Indices, c \in ComponentIds :
        (c \in m_entities[i].mask)
            <=> (m_components[c].present /\ has_data(m_components[c], i))

\* an entity that had been given a component has been removed; now a store
\* holds a value for one live entity and none for another
C10_Witness ==
    /\ removed # {}
    /\ adds = 2
    /\ \E i, j \in Indices, c \in ComponentIds :
          /\ c \in m_entities[i].mask
          /\ IsLive(m_entities[j].id)
          /\ c \notin m_entities[j].mask

\* ------------------------------------------------------------------ C11
\* the forward map, the reverse map and the size of the store under test
Forward == m_components[STORE].m_entity_to_index_map

Reverse == m_components[STORE].m_index_to_entity_map

Size == m_components[STORE].m_size

\* C11: dense packing.  The occupied dense indices are exactly [0, size);
\* every d < size has reverse[d] = e with forward[e] = d; for every entity
\* index e and dense index d, forward[e] = d iff reverse[d] = e; the
\* entries outside the occupied range carry the absent marker.
\* ComponentArray() leaves m_index_to_entity_map unwritten, so the last two
\* parts fail from the construction on.
C11_DensePacking ==
    /\ \A e \in Indices :
          Forward[e] # COMPONENT_INVALID_INDEX => Forward[e] \in 0 .. (Size - 1)
    /\ \A d \in Indices :
          d < Size => /\ Reverse[d] \in Indices
                      /\ Forward[Reverse[d]] = d
    /\ \A e \in Indices, d \in Indices : (Forward[e] = d) <=> (Reverse[d] = e)
    /\ \A d \in Indices : d >= Size => Reverse[d] = INVALID_INDEX

\* ------------------------------------------------------------------ C12
\* a removal from the store under test has just run on an index with data
StoreRemoval ==
    /\ call'.op \in {"remove_data", "on_entity_removed"}
    /\ call'.carried

\* the entity indices, other than x, whose dense slot the step changed
RelocatedBy(x) ==
    {y \in Indices \ {x} :
        /\ has_data(m_components[STORE], y)
        /\ m_components'[STORE].m_entity_to_index_map[y] # Forward[y]}

\* every entity index other than x that had data has it still, same value
OthersRetrievable(x) ==
    \A y \in Indices \ {x} :
        has_data(m_components[STORE], y) =>
            /\ has_data(m_components'[STORE], y)
            /\ get_data_from_entity_index(m_components'[STORE], y) =
                   get_data_from_entity_index(m_components[STORE], y)

\* C12 as stated: removing a component that is not the last-inserted one
\* relocates exactly one other entity's component and leaves the others
\* retrievable with the same values.  After an earlier swap the last dense
\* slot need not hold the last-inserted component, and removing the
\* component in the last dense slot relocates nothing.
C12_NotLastInsertedRelocatesOne ==
    [][ \A x \in Indices :
            (/\ StoreRemoval
             /\ get_index(call'.entity) = x
             /\ x # inserted[Len(inserted)])
            => (/\ Cardinality(RelocatedBy(x)) = 1
                /\ OthersRetrievable(x)) ]_vars

\* C12, amended: removing a component that is not in the last occupied
\* dense slot relocates exactly one other entity's component, the one of
\* the last occupied dense slot; removing the one in the last occupied
\* slot relocates none; either way every other entity's component stays
\* retrievable with the same value.
C12_NotLastSlotRelocatesOne ==
    [][ \A x \in Indices :
            (StoreRemoval /\ get_index(call'.entity) = x)
            => (/\ Forward[x] # Size - 1 => RelocatedBy(x) = {Reverse[Size - 1]}
                /\ Forward[x] = Size - 1 => RelocatedBy(x) = {}
                /\ OthersRetrievable(x)) ]_vars

\* a removal out of the middle of three: the vacated slot 0 holds the
\* written value of the entity that was last, the other entity stayed
C12_Witness ==
    /\ call.op = "remove_data"
    /\ call.carried
    /\ call.ptr = Pointer(0)
    /\ Size = 2
    /\ m_components[STORE].m_component_array[0] = WRITTEN_VALUE
    /\ m_components[STORE].m_component_array[1] = DEFAULT_VALUE

\* ------------------------------------------------------------------ C19
\* C19: removing the component of the entity x stored at dense index d,
\* d # size - 1, with y the entity stored at size - 1: y's value moves
\* into d, forward[y] = d, reverse[d] = y, forward[x] and reverse[size - 1]
\* become absent, the size drops by one, and no other entity changes slot
\* or value.
C19_SwapRemoveRelocation ==
    [][ \A x \in Indices :
            (/\ StoreRemoval
             /\ get_index(call'.entity) = x
             /\ Forward[x] # Size - 1)
            => LET d == Forward[x]
                   y == Reverse[Size - 1]
                   after == m_components'[STORE]
               IN  /\ y \in Indices \ {x}
                   /\ after.m_component_array[d] =
                          m_components[STORE].m_component_array[Size - 1]
                   /\ after.m_entity_to_index_map[y] = d
                   /\ after.m_index_to_entity_map[d] = y
                   /\ after.m_entity_to_index_map[x] = COMPONENT_INVALID_INDEX
                   /\ after.m_index_to_entity_map[Size - 1] = INVALID_INDEX
                   /\ after.m_size = Size - 1
                   /\ \A z \in Indices \ {x, y} :
                          /\ after.m_entity_to_index_map[z] = Forward[z]
                          /\ has_data(m_components[STORE], z) =>
                                 after.m_component_array[Forward[z]] =
                                     m_components[STORE].m_component_array[Forward[z]] ]_vars

\* A on e0, e1, e2 in that order, e2's value written, A removed from e0:
\* e2 sits in slot 0 with its value, e1 in slot 1, slot 2 is vacant
C19_Witness ==
    /\ call.op = "remove_data"
    /\ call.entity = Entity(0, 0)
    /\ inserted = <<1, 2>>
    /\ Size = 2
    /\ Forward = (0 :> COMPONENT_INVALID_INDEX) @@ (1 :> 1) @@ (2 :> 0)
    /\ Reverse[0] = 2 /\ Reverse[1] = 1 /\ Reverse[2] = INVALID_INDEX
    /\ m_components[STORE].m_component_array[0] = WRITTEN_VALUE
    /\ m_components[STORE].m_component_array[1] = DEFAULT_VALUE

\* ------------------------------------------------------------------ C13
\* the indices of the live entities that carry every type of pack
Matching(pack) ==
    {i \in Indices :
        /\ IsLive(m_entities[i].id)
        /\ \A k \in 1 .. Len(pack) : Carries(m_entities[i].id, pack[k])}

\* seq holds exactly the handles stored at the indices of set, each once,
\* in ascending index order
YieldsExactly(seq, set) ==
    /\ Len(seq) = Cardinality(set)
    /\ \A k \in 1 .. Len(seq) :
          /\ get_index(seq[k]) \in set
          /\ seq[k] = m_entities[get_index(seq[k])].id
    /\ \A j \in 1 .. Len(seq), k \in 1 .. Len(seq) :
          j < k => get_index(seq[j]) < get_index(seq[k])

\* C13: an iterator with a non-empty required component set yields exactly
\* the live entities whose mask holds every required bit, each once, in
\* ascending index order.
C13_IteratorCompleteness ==
    (iteration.ran /\ iteration.required # <<>>)
        => YieldsExactly(iteration.yielded, Matching(iteration.required))

\* A on e0 and e1, B on e1, index 2 free: {A, B} yields [e1]
C13_Witness ==
    /\ iteration.ran
    /\ iteration.required = <<"TransformComponent", "VelocityComponent">>
    /\ iteration.yielded = <<Entity(1, 0)>>
    /\ Carries(Entity(0, 0), "TransformComponent")
    /\ ~Carries(Entity(0, 0), "VelocityComponent")
    /\ m_entities_count = 3
    /\ ~is_valid(m_entities[2].id)

\* ------------------------------------------------------------------ C14
\* C14: an iterator with no required component types yields exactly the
\* live entities, each once, in ascending index order, and never the
\* handle stored in a free slot, for every reachable entity table.
\* begin() tests the mask alone: with index 0 free the loop starts there.
C14_AllEntitiesMode ==
    (iteration.ran /\ iteration.required = <<>>)
        => /\ YieldsExactly(iteration.yielded, Matching(<<>>))
           /\ \A k \in 1 .. Len(iteration.yielded) : is_valid(iteration.yielded[k])

\* ------------------------------------------------------------------ C15
\* C15: create_entity called when the free-index stack is empty and
\* MAX_ENTITIES indices are allocated reports a capacity error, writes
\* nothing outside the entity table (so it leaves the table's members as
\* they are and hands out no index beyond the table) and does not advance
\* the allocated-index counter beyond MAX_ENTITIES.
C15_CapacityCheckedFailure ==
    [][ (/\ call'.op = "create_entity"
         /\ m_free_indices_count = 0
         /\ m_entities_count = MAX_ENTITIES)
        => (/\ ~call'.ok
            /\ get_index(call'.entity) \notin Indices => call'.entity = Invalid
            /\ UNCHANGED entity_table
            /\ m_entities_count' <= MAX_ENTITIES) ]_vars

\* ------------------------------------------------------------------ C17
\* C17: the handle h create_entity returns is live, its mask is empty, its
\* index is not the index of any entity that is live besides it, and h
\* differs from every handle create_entity returned earlier (each of
\* those is live still or was removed since).
C17_CreateEntityPostcondition ==
    [][ call'.op = "create_entity"
        => LET h == call'.entity
           IN  /\ get_index(h) \in Indices
               /\ m_entities'[get_index(h)].id = h
               /\ m_entities'[get_index(h)].mask = EmptyMask
               /\ \A e \in LiveHandles : get_index(e) # get_index(h)
               /\ \A e \in LiveHandles' : get_index(e) = get_index(h) => e = h
               /\ h \notin LiveHandles
               /\ h \notin removed ]_vars

\* ------------------------------------------------------------------ C16
\* C16: remove_entity(e) and create_entity() leave every other live entity
\* live with an unchanged handle, an unchanged mask, and unchanged values
\* of all its components as read through get_component.
C16_EntityRemovalFrame ==
    [][ call'.op \in {"create_entity", "remove_entity"}
        => \A e \in LiveHandles \ {call'.entity} :
              /\ IsLive(e)'
              /\ m_entities'[get_index(e)].mask = m_entities[get_index(e)].mask
              /\ \A T \in Types :
                    /\ Carries(e, T)' <=> Carries(e, T)
                    /\ Carries(e, T) =>
                          /\ get_component_value(e, T)' # NULLPTR
                          /\ ValueOf(e, T)' = ValueOf(e, T) ]_vars

\* e0 and e1 both carried a TransformComponent, e1's was written, e0 was
\* removed: e1's component moved to dense slot 0 with its value
C16_Witness ==
    /\ call.op = "remove_entity"
    /\ call.ok
    /\ call.entity = Entity(0, 0)
    /\ Carries(Entity(1, 0), "TransformComponent")
    /\ get_component_value(Entity(1, 0), "TransformComponent") = Pointer(0)
    /\ ValueOf(Entity(1, 0), "TransformComponent") = WRITTEN_VALUE

\* ------------------------------------------------------------------ C20
\* the value behind the pointer get_component<T>(e) returns
get_component_read(e, T) ==
    m_components[ComponentID_get(T)].m_component_array[get_component_value(e, T).slot]

\* C20: the stores refine the reference map from (live entity, component
\* type) to value: the map has a value for (e, T) exactly when the live
\* entity e carries T, get_component<T>(e) then returns a pointer to that
\* value (the value last written since the attachment, the default value
\* if none was written), and the map knows no entity that is not live.
C20_StoreRefinesPartialMap ==
    /\ \A p \in DOMAIN reference : IsLive(p[1])
    /\ \A e \in LiveHandles, T \in Types :
          /\ <<e, T>> \in DOMAIN reference <=> has_component_value(e, T)
          /\ <<e, T>> \in DOMAIN reference <=> get_component_value(e, T) # NULLPTR
          /\ <<e, T>> \in DOMAIN reference =>
                 get_component_read(e, T) = reference[<<e, T>>]

\* index 0 was recycled, and the written component of e1 was relocated to
\* dense slot 0 when e0 was removed
C20_Witness ==
    /\ IsLive(Entity(0, 1))
    /\ <<Entity(1, 0), "TransformComponent">> \in DOMAIN reference
    /\ reference[<<Entity(1, 0), "TransformComponent">>] = WRITTEN_VALUE
    /\ get_component_value(Entity(1, 0), "TransformComponent") = Pointer(0)

\* ------------------------------------------------------------------ C18
\* the ids handed out so far are distinct and are 0, 1, 2, ... without gaps
IdsDistinctNoGaps ==
    /\ \A S \in DOMAIN type_id, T \in DOMAIN type_id : type_id[S] = type_id[T] => S = T
    /\ {type_id[T] : T \in DOMAIN type_id} = 0 .. (Cardinality(DOMAIN type_id) - 1)
    /\ counter = Cardinality(DOMAIN type_id)

\* a type that has its id keeps it
IdsStable ==
    \A T \in DOMAIN type_id : T \in DOMAIN type_id' /\ type_id'[T] = type_id[T]

\* the types of pack, each not referenced before, get the next ids in the
\* order of the pack, and no other type gets one
NextIdsInOrder(pack) ==
    LET fresh == SelectSeq(pack, LAMBDA T : T \notin DOMAIN type_id)
        first(T) == CHOOSE k \in 1 .. Len(fresh) :
                        fresh[k] = T /\ \A j \in 1 .. (k - 1) : fresh[j] # T
        before(T) == Cardinality({fresh[j] : j \in 1 .. (first(T) - 1)})
    IN  /\ DOMAIN type_id' = DOMAIN type_id \cup {fresh[k] : k \in 1 .. Len(fresh)}
        /\ \A k \in 1 .. Len(fresh) :
              type_id'[fresh[k]] = Cardinality(DOMAIN type_id) + before(fresh[k])

\* the step is a call of one of the operations that name T first thing
ReferenceThatCounts(T) ==
    \/ /\ call'.op = "add_component_to_entity"
       /\ \E entity \in Handles : add_component_to_entity(entity, T)
    \/ /\ call'.op = "remove_component_from_entity"
       /\ \E entity \in Handles : remove_component_from_entity(entity, T)
    \/ /\ call'.op = "has_component"
       /\ call'.live
       /\ \E entity \in LiveHandles : has_component(entity, T)
    \/ /\ call'.op = "get_component"
       /\ call'.live
       /\ \E entity \in LiveHandles : get_component(entity, T)

\* the step is has_component<T> or get_component<T> on a handle that is
\* not live
QueryOnDeadHandle(T) ==
    \/ /\ call'.op = "has_component"
       /\ ~call'.live
       /\ \E entity \in Handles \ LiveHandles : has_component(entity, T)
    \/ /\ call'.op = "get_component"
       /\ ~call'.live
       /\ \E entity \in Handles \ LiveHandles : get_component(entity, T)

\* C18 as stated: ComponentID::get<T>() returns the same id on every call
\* for the same T, distinct ids for distinct types, and the ids are handed
\* out in first-reference order as 0, 1, 2, ... without gaps, where any
\* reference (add, remove, has, get, iterator construction) counts as
\* first use.  has_component and get_component return before
\* ComponentID::get<T>() when the handle is not live.
C18_AnyReferenceIsFirstUse ==
    /\ []IdsDistinctNoGaps
    /\ [][ /\ IdsStable
           /\ \A T \in Types :
                 (ReferenceThatCounts(T) \/ QueryOnDeadHandle(T)) => NextIdsInOrder(<<T>>)
           /\ call'.op = "EntityIterator" =>
                 \A pack \in Packs : iterate(pack) => NextIdsInOrder(pack) ]_vars

\* C18, amended: the same, where the references that count as first use
\* are add_component_to_entity, remove_component_from_entity, the
\* construction of an EntityIterator (its types in the order of the pack),
\* and has_component / get_component on a live handle; has_component and
\* get_component on a handle that is not live hand out no id.
C18_ReachedReferenceIsFirstUse ==
    /\ []IdsDistinctNoGaps
    /\ [][ /\ IdsStable
           /\ \A T \in Types :
                 /\ ReferenceThatCounts(T) => NextIdsInOrder(<<T>>)
                 /\ QueryOnDeadHandle(T) => UNCHANGED component_ids
           /\ call'.op = "EntityIterator" =>
                 \A pack \in Packs : iterate(pack) => NextIdsInOrder(pack) ]_vars

\* two queries on a live entity that carries nothing handed out both ids,
\* VelocityComponent first
C18_Witness ==
    /\ call.op = "get_component"
    /\ call.live
    /\ ~call.ok
    /\ adds = 0
    /\ type_id = ("VelocityComponent" :> 0) @@ ("TransformComponent" :> 1)
    /\ counter = 2

\* ------------------------------------------------------------------ C21
\* the smallest index below the entity count whose slot is live and whose
\* mask holds every bit of mask, the entity count if there is none
FirstLiveMatch(mask) ==
    LET hits == {i \in Indices :
                    /\ i < get_entity_count
                    /\ IsLive(m_entities[i].id)
                    /\ mask \subseteq m_entities[i].mask}
    IN  IF hits = {} THEN get_entity_count
        ELSE CHOOSE i \in hits : \A j \in hits : i <= j

\* C21: begin() is positioned at the smallest index in [0, entity_count)
\* whose slot is live and whose mask is a superset of the required mask, or
\* at entity_count if there is none, for a non-empty required set and for
\* the empty set alike.  begin() compares masks only: with the empty
\* required mask it stops at index 0 whether or not that slot is live.
C21_IteratorStartPosition ==
    iteration.ran
        => LET mask == EntityIterator_component_mask(iteration.required)
           IN  begin_first_index(mask, 0) = FirstLiveMatch(mask)

\* ------------------------------------------------------------------ C22
\* C22: with no mutation of the registry during the iteration, operator++
\* applied from begin() on reaches the position entity_count after at
\* most entity_count advances; it != end() is true at every earlier
\* position and false at that one; no index at or beyond entity_count is
\* read; with entity_count 0 the loop body never runs.
C22_IteratorTermination ==
    iteration.ran
        => LET seq == positions(iteration.required)
               advances == Len(seq) - 1
           IN  /\ advances <= m_entities_count
               /\ seq[Len(seq)] = m_entities_count
               /\ ~operator_not_equal(seq[Len(seq)], end_index)
               /\ \A k \in 1 .. advances :
                     /\ operator_not_equal(seq[k], end_index)
                     /\ seq[k] < m_entities_count
                     /\ seq[k] < seq[k + 1]
               /\ Len(iteration.yielded) = advances
               /\ range_for_reads(iteration.required) \subseteq 0 .. (m_entities_count - 1)
               /\ m_entities_count = 0 => iteration.yielded = <<>>

\* the longest loop: a full table with one removal behind it, and as many
\* advances as entity_count
C22_Witness ==
    /\ iteration.ran
    /\ m_entities_count = MAX_ENTITIES
    /\ Len(iteration.yielded) = MAX_ENTITIES
    /\ removes = 1

\* ------------------------------------------------------------------ C23
\* C23: the Iterator of lecs.hpp scans only indices below the entity count
\* captured when it was constructed: whatever create_entity,
\* remove_entity, add_component and remove_component calls run between
\* the advances of a range-for, the loop makes at most that many
\* advances, its position never passes the captured count, and the
\* position it dereferences for the body is below the captured count.
C23_IterationUnderMutation ==
    loop.active
        => /\ loop.advances <= loop.m_entity_count
           /\ loop.advances <= loop.m_entity_index
           /\ loop.m_entity_index <= loop.m_entity_count
           /\ loop.in_body => loop.m_entity_index < loop.m_entity_count
           /\ loop.m_entity_count <= m_entities_count

\* the loop has made as many advances as the count it captured and is at
\* that count, while the body has created an entity at that very index
C23_Witness ==
    /\ loop.active
    /\ ~loop.in_body
    /\ loop.m_entity_count = 2
    /\ loop.advances = 2
    /\ loop.m_entity_index = 2
    /\ m_entities_count = 3
    /\ IsLive(Entity(2, 0))

\* ------------------------------------------------------------------ C24
\* C24: create_entity reuses the most recently freed index that has not
\* been reused yet: after the removal of entities with indices i1, ..., ik
\* in that order the next k creations return ik, ..., i1; a brand-new
\* index, the entity count, is allocated only when no freed index is left.
C24_LifoIndexReuse ==
    [][ call'.op = "create_entity"
        => /\ freed # <<>> => get_index(call'.entity) = freed[Len(freed)]
           /\ freed = <<>> => get_index(call'.entity) = m_entities_count
           /\ freed' = freed_after_create ]_vars

\* indices 0, 2, 1 were freed in that order; 1 and 2 have been reused, in
\* that order, and 0 is still free
C24_Witness ==
    /\ call.op = "create_entity"
    /\ call.entity = Entity(2, 1)
    /\ IsLive(Entity(1, 1))
    /\ freed = <<0>>
    /\ removed = {Entity(0, 0), Entity(2, 0), Entity(1, 0)}

\* ------------------------------------------------------------------ C25
\* C25: get_entity_count is the high-water mark of the allocated indices:
\* it never decreases, remove_entity leaves it unchanged, create_entity
\* leaves it unchanged when it reuses a free index and increases it by
\* exactly one otherwise, and every live entity has an index below it.
C25_CountIsHighWaterMark ==
    /\ [](\A e \in LiveHandles : get_index(e) < get_entity_count)
    /\ [][ /\ get_entity_count' >= get_entity_count
           /\ call'.op = "remove_entity" => get_entity_count' = get_entity_count
           /\ call'.op = "create_entity" =>
                 get_entity_count' = IF freed # <<>> THEN get_entity_count
                                     ELSE get_entity_count + 1 ]_vars

\* ------------------------------------------------------------------ C26
\* the step is a successful add_component_to_entity of the type with id c
SuccessfulAttachOf(c) ==
    /\ call'.op = "add_component_to_entity"
    /\ call'.ok
    /\ ComponentID_get(call'.type) = c

\* C26: the registry's slot for a component type is non-null iff an
\* add_component_to_entity of that type has succeeded on this registry:
\* every slot starts null, a null slot becomes non-null in a successful
\* attach of its type and in no other call, a successful attach leaves
\* its type's slot non-null, and a store once created is never destroyed
\* or replaced: it stays, with the components it holds.
C26_LazyStoreCreation ==
    /\ [](adds = 0 => \A c \in ComponentIds : ~m_components[c].present)
    /\ [][ \A c \in ComponentIds :
              /\ SuccessfulAttachOf(c) => m_components'[c].present
              /\ (~m_components[c].present /\ m_components'[c].present)
                     => SuccessfulAttachOf(c)
              /\ m_components[c].present =>
                     /\ m_components'[c].present
                     /\ SuccessfulAttachOf(c) =>
                            /\ m_components'[c].m_size = m_components[c].m_size + 1
                            /\ \A i \in Indices :
                                  has_data(m_components[c], i) =>
                                      /\ has_data(m_components'[c], i)
                                      /\ get_data_from_entity_index(m_components'[c], i) =
                                             get_data_from_entity_index(m_components[c], i) ]_vars

\* a query came back empty-handed on a registry whose TransformComponent
\* store was created and emptied since, and whose VelocityComponent store
\* was never created
C26_Witness ==
    /\ call.op = "get_component"
    /\ ~call.ok
    /\ adds = 1
    /\ m_components[ComponentID_get("TransformComponent")].present
    /\ m_components[ComponentID_get("TransformComponent")].m_size = 0
    /\ ~m_components[ComponentID_get("VelocityComponent")].present


\* ---------------------------------------------------------------- C27
\* C27 (construction/destruction balance): between store operations the
\* dense slots holding a constructed, not yet destroyed value are exactly
\* those of [0, size); no operation destroys a slot that holds no live value
\* (a second destruction) or constructs over a live value; and once the
\* store is destroyed, each of the values it held has been destroyed, once.
C27_ConstructionDestructionBalance ==
    /\ lifetime.alive = {d \in Indices : d < Size}
    /\ DESTROYED_NOT_LIVE \notin lifetime.faults
    /\ CONSTRUCTED_OVER_LIVE \notin lifetime.faults
    /\ ~m_components[STORE].present => lifetime.alive = {}

\* a store that held two values, after a removal from its last dense slot,
\* has been destroyed
C27_Witness ==
    /\ call.op = "~ComponentArray"
    /\ call.ptr = Pointer(2)
    /\ Len(inserted) = 2
    /\ READ_NOT_LIVE \in lifetime.faults
    /\ lifetime.alive = {}

\* ---------------------------------------------------------------- C28
\* C28 (remove_data never reads a destroyed value): the source slot of the
\* move construction in remove_data holds a constructed, not yet destroyed
\* value when it is read, also when the removed entity is in the last dense
\* slot.
C28_RemoveNeverReadsDestroyed ==
    READ_NOT_LIVE \notin lifetime.faults

\* ---------------------------------------------------------------- C29
\* the indices whose slot holds a live handle, the indices whose slot holds
\* what remove_entity leaves, and the content of the free-index stack
LiveSlots == { i \in Indices : get_index(m_entities[i].id) = i }

FreeSlots ==
    { i \in Indices : /\ get_index(m_entities[i].id) = INVALID_INDEX
                      /\ m_entities[i].mask = EmptyMask
                      /\ i < get_entity_count }

FreeStack == { k \in Indices : k < m_free_indices_count }

\* C29 (entity table invariant): every index below get_entity_count is live
\* (its slot's id has that index) or free (sentinel index, empty mask); the
\* free-index stack holds exactly the free indices, each once; free count
\* plus live count is get_entity_count; every slot at or above
\* get_entity_count holds the invalid handle and an empty mask.
C29_EntityTableInvariant ==
    /\ \A i \in Indices : i < get_entity_count => i \in LiveSlots \cup FreeSlots
    /\ { m_free_indices[k] : k \in FreeStack } = FreeSlots
    /\ \A k, l \in FreeStack : m_free_indices[k] = m_free_indices[l] => k = l
    /\ m_free_indices_count + Cardinality(LiveSlots) = get_entity_count
    /\ \A i \in Indices :
          i >= get_entity_count => m_entities[i] = Entry(Invalid, EmptyMask)

\* ---------------------------------------------------------------- C30
\* the live entities whose mask has bit component_id set
Carriers(component_id) ==
    { i \in LiveSlots : component_id \in get_component_mask(i) }

\* C30 (store size matches the masks): for every component type that has a
\* store, the size of the store is the number of live entities whose mask
\* has the bit of the type set, and so at most the number of live entities.
C30_StoreSizeMatchesMasks ==
    \A component_id \in ComponentIds :
        m_components[component_id].present =>
            /\ m_components[component_id].m_size = Cardinality(Carriers(component_id))
            /\ m_components[component_id].m_size <= Cardinality(LiveSlots)

\* two stores of different sizes, one of them emptied by remove_entity
C30_Witness ==
    /\ call.op = "remove_entity"
    /\ m_components[0].present /\ m_components[0].m_size = 1
    /\ m_components[1].present /\ m_components[1].m_size = 0
    /\ Cardinality(LiveSlots) = 2

\* ---------------------------------------------------------------- C31
\* the entity indices other than entity_index that have data in store s
OthersWithData(s, entity_index) ==
    { i \in Indices : i # entity_index /\ has_data(s, i) }

\* C31 (attach/detach round trip): after add_component_to_entity<T>(e) on a
\* live e without T, followed at once by remove_component_from_entity<T>(e),
\* every mask is what it was before the two calls, T's store has the size
\* it had, and every other entity's T component is in the dense slot it was
\* in, with the value it had.
C31_AttachDetachRoundTrip ==
    snapshot.round_trip =>
        LET component_id == ComponentID_get(snapshot.type)
            before == snapshot.m_components[component_id]
            after == m_components[component_id]
            others == OthersWithData(before, get_index(snapshot.entity))
        IN  /\ \A i \in Indices : m_entities[i].mask = snapshot.m_entities[i].mask
            /\ after.m_size = before.m_size
            /\ OthersWithData(after, get_index(snapshot.entity)) = others
            /\ ~has_data(after, get_index(snapshot.entity))
            /\ \A i \in others :
                  /\ after.m_entity_to_index_map[i] = before.m_entity_to_index_map[i]
                  /\ get_data_from_entity_index(after, i) =
                         get_data_from_entity_index(before, i)

\* the round trip on one entity while another holds a written component of
\* the same type in the first dense slot
C31_Witness ==
    /\ snapshot.round_trip
    /\ call.op = "remove_component_from_entity"
    /\ call.ok
    /\ LET s == m_components[ComponentID_get(snapshot.type)]
       IN  /\ s.m_size = 1
           /\ s.m_component_array[0] = WRITTEN_VALUE
           /\ OthersWithData(s, get_index(snapshot.entity)) # {}

\* ---------------------------------------------------------------- C32
\* EntityGeneration values are kept as the 32-bit pattern read as a signed
\* number: 0xFFFFFFFF is -1.  A removal count r is r.before + r.since, with
\* r.before kept the same way.

\* (r.before + r.since) mod 2^32 as an EntityGeneration: the signed sum,
\* less 2^32 when it passes 0x7FFFFFFF; a sum passing 0xFFFFFFFF is already
\* reduced, -1 + 1 being 0
RemovalsMod32(r) ==
    IF r.before > INT32_TOP - r.since
    THEN (((r.before - INT32_TOP) - 1) + r.since) + ((-INT32_TOP) - 1)
    ELSE r.before + r.since

\* r.before + r.since < 2^32
FewerThanWrap(r) == r.before >= 0 \/ r.before + r.since < 0

\* a < b as uint32_t
UnsignedLess(a, b) == IF (a < 0) = (b < 0) THEN a < b ELSE b < 0

\* create_entity has returned the handle e at some time
Issued(e) ==
    \/ e \in removed \cup LiveHandles
    \/ /\ get_index(e) \in Indices
       /\ UnsignedLess(get_generation(e), recycled[get_index(e)].before)

\* C32 (generation arithmetic): the generation kept at an index, which is
\* that of the handle live there or of the handle the next create_entity
\* returns for the index, is the number of remove_entity calls that succeeded
\* on the index, modulo 2^32; and a create_entity for an index recycled fewer
\* than 2^32 times returns a handle that was not issued before.
C32_GenerationArithmetic ==
    /\ [](\A i \in Indices :
             get_generation(m_entities[i].id) = RemovalsMod32(recycled[i]))
    /\ [][ (call'.op = "create_entity" /\ get_index(call'.entity) \in Indices)
           => LET r == recycled[get_index(call'.entity)]
              IN  /\ get_generation(call'.entity) = RemovalsMod32(r)
                  /\ FewerThanWrap(r) => ~Issued(call'.entity) ]_vars

\* index 0 has been recycled 2^32 times and its first handle is live again,
\* index 1 once
C32_Witness ==
    /\ call.op = "create_entity"
    /\ recycled[0] = [before |-> GENERATION_LAST, since |-> 1]
    /\ IsLive(Entity(0, 0))
    /\ recycled[1].since = 1
    /\ IsLive(Entity(1, 1))

\* ---------------------------------------------------------------- C33
\* the Iterator values of the range the loop runs over: what begin() and
\* end() return and every position between them
IteratorsOfLoop ==
    { [loop EXCEPT !.m_entity_index = entity_index] :
          entity_index \in 0 .. loop.m_entity_count }

\* C33 (iterator comparison consistency): for two Iterator values a and b
\* over the same registry, a != b is the negation of a == b.
C33_ComparisonConsistency ==
    loop.active =>
        \A b \in IteratorsOfLoop :
            Iterator_operator_not_equal(loop, b) = ~Iterator_operator_equal(loop, b)

\* ---------------------------------------------------------------- C34
\* C34 (the two copies behave alike): over the same calls and iterator
\* steps, src/lecs.h and src/lecs/lecs.hpp with lecs.inl return the same
\* handles, booleans, component values and yielded entities.  The entity
\* table and the registry calls are the same statements in both copies; of
\* the range-for, the two Iterators are at the same index at every step and
\* answer every loop test alike.
C34_CopiesAgree ==
    /\ ~h_loop.diverged
    /\ (loop.active /\ h_loop.active) => h_loop.m_entity_index = loop.m_entity_index
====
